---- MODULE Spec2Model ----
(***************************************************************************)
(* AlphaDAPR (gogochi/alpha-dapr-gh): the detection pipeline               *)
(* (services/detection.js), the rule-based DAPR scoring (services/         *)
(* scoring.js), the analysis orchestration (services/analysis.js) and the  *)
(* IndexedDB persistence (services/db.js).                                  *)
(*                                                                         *)
(* Numbers.  JavaScript numbers are modelled by integers in fixed units:   *)
(*   - rounded box coordinates (2 decimals) are in centi-pixels,           *)
(*   - rounded confidences (3 decimals) are in thousandths,                *)
(*   - raw class scores are in ten-thousandths,                            *)
(*   - unrounded decoded coordinates are in units of 1/(2*scale) pixel,    *)
(*     the unit in which (cx -/+ w/2 - pad)/scale is an integer.           *)
(* Comparisons between quotients are made by cross-multiplication, so the  *)
(* model computes with exact rationals where the code uses doubles.        *)
(***************************************************************************)
EXTENDS Integers, Sequences, FiniteSets, TLC

\* ------------------------------------------------------------------------
\* Generic helpers
\* ------------------------------------------------------------------------

Max(a, b) == IF a >= b THEN a ELSE b

Min(a, b) == IF a <= b THEN a ELSE b

Range(s) == {s[i] : i \in DOMAIN s}

\* Math.round(n / d) for d > 0: JavaScript rounds halves towards +infinity.
RoundDiv(n, d) == (2 * n + d) \div (2 * d)

RECURSIVE SumSeq(_)
SumSeq(s) == IF s = <<>> THEN 0 ELSE Head(s) + SumSeq(Tail(s))

\* ------------------------------------------------------------------------
\* services/scoring.js
\* ------------------------------------------------------------------------

\* Units per pixel of the rounded coordinates the scoring engine is fed.
CentiPx == 100

PIXELS_PER_INCH == 96

EXCESS_RAIN_THRESHOLD == 5

STRESS_ITEMS ==
  << [name |-> "no_rain", method |-> "frequency"],
     [name |-> "excess_rain", method |-> "frequency"],
     [name |-> "rain_hitting_person", method |-> "distance"],
     [name |-> "stormy_rain", method |-> "frequency"],
     [name |-> "lightning", method |-> "frequency"],
     [name |-> "lightning_hits", method |-> "distance"],
     [name |-> "puddles", method |-> "frequency"],
     [name |-> "standing_in_puddle", method |-> "distance"],
     [name |-> "clouds", method |-> "frequency"],
     [name |-> "dark_clouds", method |-> "frequency"],
     [name |-> "no_person", method |-> "frequency"],
     [name |-> "figure_small", method |-> "area"],
     [name |-> "figure_large", method |-> "area"],
     [name |-> "no_facial_features", method |-> "frequency"],
     [name |-> "body_exposed", method |-> "distance"],
     [name |-> "sad_expression", method |-> "frequency"] >>

RESOURCE_ITEMS ==
  << [name |-> "umbrella_present", method |-> "frequency"],
     [name |-> "umbrella_covers", method |-> "distance"],
     [name |-> "umbrella_intact", method |-> "frequency"],
     [name |-> "raincoat", method |-> "frequency"],
     [name |-> "boots", method |-> "frequency"],
     [name |-> "hat", method |-> "frequency"],
     [name |-> "shelter", method |-> "frequency"],
     [name |-> "figure_appropriate_size", method |-> "area"],
     [name |-> "grounded_figure", method |-> "frequency"],
     [name |-> "complete_person", method |-> "frequency"],
     [name |-> "facial_features", method |-> "frequency"],
     [name |-> "smiling", method |-> "frequency"],
     [name |-> "movement", method |-> "frequency"],
     [name |-> "sun_present", method |-> "frequency"],
     [name |-> "flowers_nature", method |-> "frequency"],
     [name |-> "multiple_resources", method |-> "frequency"],
     [name |-> "detailed_drawing", method |-> "frequency"],
     [name |-> "centered_figure", method |-> "area"],
     [name |-> "appropriate_proportions", method |-> "area"] >>

\* The number a missing field gives: `d.bbox_x` of a record without the
\* field is undefined, and arithmetic on undefined gives NaN.  Every
\* comparison with NaN is false, Math.max and Math.min of NaN are NaN.
NaN == -1000000

isNumber(v) == v # NaN

\* the box of det has its four numbers
hasBox(det) ==
  /\ isNumber(det.bbox_x) /\ isNumber(det.bbox_y)
  /\ isNumber(det.bbox_w) /\ isNumber(det.bbox_h)

\* getArea(det) is a number
hasArea(det) == isNumber(det.bbox_w) /\ isNumber(det.bbox_h)

\* getCenter(det) = [(bbox_x + bbox_w) / 2, (bbox_y + bbox_h) / 2].  The
\* model returns TWICE the code's value, to stay in the integers.
getCenter(det) == << det.bbox_x + det.bbox_w, det.bbox_y + det.bbox_h >>

getArea(det) == det.bbox_w * det.bbox_h

\* A deliberately different count, to show what the empty sketch's score
\* rests on: `|| 1` in the place of `|| 0`.
countByCategoryOrOne(objects, category) ==
  Max(1, Cardinality({i \in DOMAIN objects : objects[i].category = category}))

\* countByCategory(objects)[category] || 0
countByCategory(objects, category) ==
  Cardinality({i \in DOMAIN objects : objects[i].category = category})

getObjectsByCategory(objects, category) ==
  SelectSeq(objects, LAMBDA o : o.category = category)

\* calculateDistance(obj1, obj2) < limit, for a limit given as a number:
\* sqrt(dx^2 + dy^2) < limit, with dx, dy the differences of the centers.
\* The centers are doubled, so the comparison is (2dx)^2 + (2dy)^2 < (2 limit)^2.
distanceBelow(obj1, obj2, twiceLimit) ==
  LET c1 == getCenter(obj1)
      c2 == getCenter(obj2)
      dx == c1[1] - c2[1]
      dy == c1[2] - c2[2]
  IN  /\ hasBox(obj1) /\ hasBox(obj2)
      /\ twiceLimit > 0
      /\ dx * dx + dy * dy < twiceLimit * twiceLimit

\* computeIoU(obj1, obj2) as the pair <<intersection, union>>; the code's
\* result is 0 when union <= 0 and intersection / union otherwise.
computeIoU(obj1, obj2) ==
  LET x1 == Max(obj1.bbox_x, obj2.bbox_x)
      y1 == Max(obj1.bbox_y, obj2.bbox_y)
      x2 == Min(obj1.bbox_x + obj1.bbox_w, obj2.bbox_x + obj2.bbox_w)
      y2 == Min(obj1.bbox_y + obj1.bbox_h, obj2.bbox_y + obj2.bbox_h)
      intersection == Max(0, x2 - x1) * Max(0, y2 - y1)
      area1 == obj1.bbox_w * obj1.bbox_h
      area2 == obj2.bbox_w * obj2.bbox_h
  IN  << intersection, area1 + area2 - intersection >>

\* checkOverlap: computeIoU(obj1, obj2) > 0.05; with a missing number the
\* IoU is NaN (`union <= 0` is false, and NaN / NaN is NaN)
checkOverlap(obj1, obj2) ==
  LET iou == computeIoU(obj1, obj2)
  IN  IF ~(hasBox(obj1) /\ hasBox(obj2)) THEN FALSE
      ELSE IF iou[2] <= 0 THEN FALSE ELSE 20 * iou[1] > iou[2]

\* persons.reduce((best, p) => getArea(p) > getArea(best) ? p : best, persons[0])
RECURSIVE reduceMainPerson(_, _)
reduceMainPerson(best, rest) ==
  IF rest = <<>> THEN best
  ELSE reduceMainPerson(IF /\ hasArea(Head(rest)) /\ hasArea(best)
                           /\ getArea(Head(rest)) > getArea(best)
                        THEN Head(rest) ELSE best,
                        Tail(rest))

mainPersonOf(persons) == reduceMainPerson(persons[1], persons)

\* A deliberately different figure measure, to show what the size rules rest
\* on: the width of the first person in the place of the main person's height.
figureWidthInches(persons) ==
  IF Len(persons) = 0 THEN 0 ELSE persons[1].bbox_w

\* figureHeightInches(persons) in units of 1/(unit * 96) inch, i.e. the height
\* of the main person in coordinate units (0 when there is no person).
figureHeightInches(persons) ==
  IF Len(persons) = 0 THEN 0 ELSE mainPersonOf(persons).bbox_h

\* n inches in the unit of figureHeightInches
Inches(n, unit) == n * PIXELS_PER_INCH * unit

\* calculateStressScore(objects): the set of rules that trigger, as the
\* sequence of the names in the order the code tests them.
stressRules(objects, unit) ==
  LET persons == getObjectsByCategory(objects, "person")
      rains == getObjectsByCategory(objects, "rain")
      lightnings == getObjectsByCategory(objects, "lightning")
      puddles == getObjectsByCategory(objects, "puddle")
      umbrellas == getObjectsByCategory(objects, "umbrella")
      rainCount == countByCategory(objects, "rain")
      heightInches == figureHeightInches(persons)
  IN  [ no_rain |-> ~(rainCount > 0),
        excess_rain |-> rainCount > EXCESS_RAIN_THRESHOLD,
        rain_hitting_person |->
          /\ Len(persons) > 0 /\ Len(rains) > 0
          /\ \E p \in DOMAIN persons : \E r \in DOMAIN rains :
               checkOverlap(persons[p], rains[r]),
        lightning |-> countByCategory(objects, "lightning") > 0,
        lightning_hits |->
          /\ Len(persons) > 0 /\ Len(lightnings) > 0
          /\ \E p \in DOMAIN persons : \E l \in DOMAIN lightnings :
               distanceBelow(persons[p], lightnings[l],
                             Max(persons[p].bbox_h, lightnings[l].bbox_h)),
        puddles |-> countByCategory(objects, "puddle") > 0,
        standing_in_puddle |->
          /\ Len(persons) > 0 /\ Len(puddles) > 0
          /\ \E p \in DOMAIN persons : \E q \in DOMAIN puddles :
               checkOverlap(persons[p], puddles[q]),
        clouds |-> countByCategory(objects, "cloud") > 0,
        no_person |-> countByCategory(objects, "person") = 0,
        figure_small |->
          Len(persons) > 0 /\ isNumber(heightInches) /\ heightInches < Inches(2, unit),
        figure_large |->
          Len(persons) > 0 /\ isNumber(heightInches) /\ heightInches > Inches(6, unit),
        body_exposed |-> Len(persons) > 0 /\ Len(rains) > 0 /\ Len(umbrellas) = 0 ]

StressRuleOrder ==
  << "no_rain", "excess_rain", "rain_hitting_person", "lightning", "lightning_hits",
     "puddles", "standing_in_puddle", "clouds", "no_person", "figure_small",
     "figure_large", "body_exposed" >>

\* A deliberately different stress score, to show what the sums rest on: the
\* loop of rain_hitting_person without its `break`, counting every
\* overlapping pair.
calculateStressScorePerPair(objects, unit) ==
  LET rules == stressRules(objects, unit)
      persons == getObjectsByCategory(objects, "person")
      rains == getObjectsByCategory(objects, "rain")
      pairs == Cardinality({ pr \in (DOMAIN persons) \X (DOMAIN rains) :
                               checkOverlap(persons[pr[1]], rains[pr[2]]) })
  IN  [ score |-> SumSeq([i \in DOMAIN StressRuleOrder |->
                            IF rules[StressRuleOrder[i]] THEN 1 ELSE 0])
                  + Max(0, pairs - 1),
        details |-> {n \in Range(StressRuleOrder) : rules[n]} ]

\* calculateStressScore(objects) = { score, details }: score is incremented
\* once with every rule that triggers, details gets the rule's name as a key.
calculateStressScore(objects, unit) ==
  LET rules == stressRules(objects, unit)
  IN  [ score |-> SumSeq([i \in DOMAIN StressRuleOrder |->
                            IF rules[StressRuleOrder[i]] THEN 1 ELSE 0]),
        details |-> {n \in Range(StressRuleOrder) : rules[n]} ]

resourceRules(objects, imageWidth, imageHeight, unit) ==
  LET persons == getObjectsByCategory(objects, "person")
      umbrellas == getObjectsByCategory(objects, "umbrella")
      heightInches == figureHeightInches(persons)
      resourceCount == countByCategory(objects, "umbrella")
  IN  [ umbrella_present |-> countByCategory(objects, "umbrella") > 0,
        umbrella_covers |->
          /\ Len(persons) > 0 /\ Len(umbrellas) > 0
          /\ \E p \in DOMAIN persons : \E u \in DOMAIN umbrellas :
               /\ checkOverlap(umbrellas[u], persons[p])
               /\ getCenter(umbrellas[u])[2] < getCenter(persons[p])[2],
        figure_appropriate_size |->
          /\ Len(persons) > 0 /\ isNumber(heightInches)
          /\ heightInches >= Inches(2, unit) /\ heightInches <= Inches(6, unit),
        complete_person |-> countByCategory(objects, "person") > 0,
        multiple_resources |-> resourceCount > 1,
        centered_figure |->
          /\ Len(persons) > 0 /\ imageWidth > 0 /\ imageHeight > 0
          /\ hasBox(mainPersonOf(persons))
          /\ LET center == getCenter(mainPersonOf(persons))
                 dx == center[1] - imageWidth     \* 2 * (center[0] - cx)
                 dy == center[2] - imageHeight    \* 2 * (center[1] - cy)
                 m == Min(imageWidth, imageHeight) \* 4 * threshold
             IN  4 * (dx * dx + dy * dy) < m * m ]

ResourceRuleOrder ==
  << "umbrella_present", "umbrella_covers", "figure_appropriate_size",
     "complete_person", "multiple_resources", "centered_figure" >>

calculateResourceScore(objects, imageWidth, imageHeight, unit) ==
  LET rules == resourceRules(objects, imageWidth, imageHeight, unit)
  IN  [ score |-> SumSeq([i \in DOMAIN ResourceRuleOrder |->
                            IF rules[ResourceRuleOrder[i]] THEN 1 ELSE 0]),
        details |-> {n \in Range(ResourceRuleOrder) : rules[n]} ]

\* A deliberately different banding, to show what the band limits rest on:
\* `>` in the place of `>=`.
getInterpretationOpen(totalScore) ==
  IF totalScore > 4 THEN "Adequate resources, good coping ability"
  ELSE IF totalScore > 1 THEN "Slightly more resources than stress"
  ELSE IF totalScore > -1 THEN "Stress and resources roughly balanced"
  ELSE IF totalScore > -4 THEN "Slightly more stress than resources"
  ELSE "Significantly more stress, further assessment recommended"

\* getInterpretation(totalScore): the band, named by its English text.
getInterpretation(totalScore) ==
  IF totalScore >= 4 THEN "Adequate resources, good coping ability"
  ELSE IF totalScore >= 1 THEN "Slightly more resources than stress"
  ELSE IF totalScore >= -1 THEN "Stress and resources roughly balanced"
  ELSE IF totalScore >= -4 THEN "Slightly more stress than resources"
  ELSE "Significantly more stress, further assessment recommended"

\* A deliberately different item array, to show what the completeness rests
\* on: one entry for every triggered item only, as the attributes arrays have.
itemArrayTriggered(table, category, details) ==
  LET triggered == SelectSeq(table, LAMBDA item : item.name \in details)
  IN  [i \in DOMAIN triggered |->
         [ name |-> triggered[i].name,
           category |-> category,
           method |-> triggered[i].method,
           score |-> 1,
           max_score |-> 1 ]]

\* STRESS_ITEMS.map / RESOURCE_ITEMS.map: one entry for every defined item.
itemArray(table, category, details) ==
  [i \in DOMAIN table |->
     [ name |-> table[i].name,
       category |-> category,
       method |-> table[i].method,
       score |-> IF table[i].name \in details THEN 1 ELSE 0,
       max_score |-> 1 ]]

\* `(detections || [])`: an argument that is null or undefined is the empty
\* set here, an array is the set of that one sequence
orEmpty(detections) ==
  IF detections = {} THEN <<>> ELSE CHOOSE d \in detections : TRUE

\* calculateDAPRScore(detections, imageWidth, imageHeight); unit is the
\* number of coordinate units per pixel of its three arguments.
calculateDAPRScore(detections, imageWidth, imageHeight, unit) ==
  LET objects == [i \in DOMAIN detections |->
                    [ category |-> detections[i].category,
                      bbox_x |-> detections[i].bbox_x,
                      bbox_y |-> detections[i].bbox_y,
                      bbox_w |-> detections[i].bbox_w,
                      bbox_h |-> detections[i].bbox_h,
                      confidence |-> detections[i].confidence ]]
      stress == calculateStressScore(objects, unit)
      resource == calculateResourceScore(objects, imageWidth, imageHeight, unit)
      totalScore == resource.score - stress.score
  IN  [ stress_score |-> stress.score,
        resource_score |-> resource.score,
        total_score |-> totalScore,
        stress_items |-> itemArray(STRESS_ITEMS, "stress", stress.details),
        resource_items |-> itemArray(RESOURCE_ITEMS, "resource", resource.details),
        interpretation |-> getInterpretation(totalScore) ]

\* ------------------------------------------------------------------------
\* services/detection.js (current revision)
\* ------------------------------------------------------------------------

CLASS_NAMES == << "rain", "umbrella", "person", "lightning", "cloud", "puddle" >>

\* Units per 1.0 of a raw class score (ten-thousandths).
ScoreUnit == 10000

\* CLASS_CONFIDENCE, in ten-thousandths: rain 0.6, the others 0.5.
CLASS_CONFIDENCE ==
  [ rain |-> 6000, umbrella |-> 5000, person |-> 5000,
    lightning |-> 5000, cloud |-> 5000, puddle |-> 5000 ]

\* MIN_DETECTION_AREA in px^2
MIN_DETECTION_AREA == 400

\* MIN_INK_RATIO = 0.05 = 1 / InkRatioDen
InkRatioDen == 20

\* "near-white" limit of a colour channel
INK_LEVEL == 240

MODEL_INPUT_SIZE == 640

\* the defaults of detectObjects' options
DefaultConfidenceThreshold == 5000

DefaultIouThreshold == << 9, 20 >>

\* className of a class id: CLASS_NAMES[id], or `class_${id}` past the table
classNameOf(classId) ==
  IF classId < Len(CLASS_NAMES) THEN CLASS_NAMES[classId + 1]
  ELSE CASE classId = 6 -> "class_6"
         [] classId = 7 -> "class_7"
         [] OTHER -> "class_n"

\* calculateIoU(box1, box2) as a fraction <<numerator, denominator>> with a
\* positive denominator; <<0, 1>> is the code's 0.
calculateIoU(box1, box2) ==
  LET x1 == Max(box1[1], box2[1])
      y1 == Max(box1[2], box2[2])
      x2 == Min(box1[3], box2[3])
      y2 == Min(box1[4], box2[4])
      intersection == Max(0, x2 - x1) * Max(0, y2 - y1)
      area1 == (box1[3] - box1[1]) * (box1[4] - box1[2])
      area2 == (box2[3] - box2[1]) * (box2[4] - box2[2])
      union == area1 + area2 - intersection
  IN  IF intersection = 0 THEN << 0, 1 >>
      ELSE IF union <= 0 THEN << 0, 1 >>
      ELSE << intersection, union >>

\* A deliberately different comparison, to show what the boundary rests on:
\* `>=` in the place of nms's `>`.
FracAtLeast(q, t) == q[1] * t[2] >= t[1] * q[2]

\* q > t for fractions with positive denominators
FracGreater(q, t) == q[1] * t[2] > t[1] * q[2]

\* order.sort((a, b) => scores[b] - scores[a]): the indices by descending
\* score; Array.prototype.sort is stable, so equal scores keep input order.
sortByScore(scores) ==
  LET before(j, i) == scores[j] > scores[i] \/ (scores[j] = scores[i] /\ j < i)
      rank(i) == Cardinality({j \in DOMAIN scores : before(j, i)}) + 1
  IN  [k \in DOMAIN scores |-> CHOOSE i \in DOMAIN scores : rank(i) = k]

\* the guard of the inner loop that lets box j be compared with the kept box i
sameClass(classIds, i, j) == classIds = <<>> \/ classIds[i] = classIds[j]

\* A deliberately different inner loop, to show what idempotence rests on: it scans every
\* position of the order and skips the candidates whose index is not above
\* the kept one's (`j <= i`), whatever their place in the order.
RECURSIVE nmsScanByIndex(_, _, _, _, _, _, _)
nmsScanByIndex(order, sj, i, boxes, iouThreshold, classIds, suppressed) ==
  IF sj > Len(order) THEN suppressed
  ELSE LET j == order[sj]
       IN  nmsScanByIndex(order, sj + 1, i, boxes, iouThreshold, classIds,
             IF j <= i \/ j \in suppressed THEN suppressed
             ELSE IF ~sameClass(classIds, i, j) THEN suppressed
             ELSE IF FracGreater(calculateIoU(boxes[i], boxes[j]), iouThreshold)
                  THEN suppressed \cup {j}
             ELSE suppressed)

nmsInnerByIndex(order, sj, i, boxes, iouThreshold, classIds, suppressed) ==
  nmsScanByIndex(order, 1, i, boxes, iouThreshold, classIds, suppressed)

\* the inner loop of nms: sj runs over the positions after si
RECURSIVE nmsInner(_, _, _, _, _, _, _)
nmsInner(order, sj, i, boxes, iouThreshold, classIds, suppressed) ==
  IF sj > Len(order) THEN suppressed
  ELSE LET j == order[sj]
       IN  nmsInner(order, sj + 1, i, boxes, iouThreshold, classIds,
             IF j \in suppressed THEN suppressed
             ELSE IF ~sameClass(classIds, i, j) THEN suppressed
             ELSE IF FracGreater(calculateIoU(boxes[i], boxes[j]), iouThreshold)
                  THEN suppressed \cup {j}
             ELSE suppressed)

\* the outer loop of nms: si runs over the sorted order
RECURSIVE nmsOuter(_, _, _, _, _, _, _)
nmsOuter(order, si, boxes, iouThreshold, classIds, keep, suppressed) ==
  IF si > Len(order) THEN keep
  ELSE LET i == order[si]
       IN  IF i \in suppressed
           THEN nmsOuter(order, si + 1, boxes, iouThreshold, classIds, keep, suppressed)
           ELSE nmsOuter(order, si + 1, boxes, iouThreshold, classIds, Append(keep, i),
                         nmsInner(order, si + 1, i, boxes, iouThreshold, classIds, suppressed))

\* nms(boxes, scores, iouThreshold, classIds): the kept indices (1-based),
\* in the order they were kept; classIds = <<>> stands for null.
nms(boxes, scores, iouThreshold, classIds) ==
  nmsOuter(sortByScore(scores), 1, boxes, iouThreshold, classIds, <<>>, {})

\* A raster (HTMLImageElement / canvas / ImageData) is a record
\*   [width, height, ink]: the pixels (x, y) with ink[1] <= x < ink[3] and
\*   ink[2] <= y < ink[4] are black strokes, all others are white paper.
pixelChannel(imageData, x, y) ==
  IF /\ imageData.ink[1] <= x /\ x < imageData.ink[3]
     /\ imageData.ink[2] <= y /\ y < imageData.ink[4]
  THEN 0 ELSE 255

\* floor and ceil of a coordinate given in centi-pixels
FloorPx(c) == c \div CentiPx

CeilPx(c) == 0 - ((0 - c) \div CentiPx)

\* Math.ceil(n / 2) for n >= 0
CeilHalf(n) == (n + 1) \div 2

\* the predicate of filterByContent's filter
hasInk(det, imageData, imgWidth) ==
  LET bx1 == Max(0, FloorPx(det.bbox[1]))
      by1 == Max(0, FloorPx(det.bbox[2]))
      bx2 == Min(imgWidth, CeilPx(det.bbox[3]))
      by2 == Min(imageData.height, CeilPx(det.bbox[4]))
      bw == bx2 - bx1
      bh == by2 - by1
      inkPixels ==
        Cardinality({ xy \in (bx1 .. bx2 - 1) \X (by1 .. by2 - 1) :
                        /\ (xy[1] - bx1) % 2 = 0
                        /\ (xy[2] - by1) % 2 = 0
                        /\ pixelChannel(imageData, xy[1], xy[2]) < INK_LEVEL })
      sampledTotal == CeilHalf(bh) * CeilHalf(bw)
  IN  IF bw <= 0 \/ bh <= 0 THEN FALSE
      ELSE IF sampledTotal > 0 THEN InkRatioDen * inkPixels >= sampledTotal
      ELSE FALSE

\* filterByContent(detections, imageData, imgWidth)
filterByContent(detections, imageData, imgWidth) ==
  SelectSeq(detections, LAMBDA det : hasInk(det, imageData, imgWidth))

\* A deliberately different preprocessImage, to show what the round trip
\* rests on: the image stretched over the whole canvas, without padding.
preprocessImageStretched(origWidth, origHeight) ==
  [ scale |-> << MODEL_INPUT_SIZE, Max(origWidth, origHeight) >>,
    newW |-> MODEL_INPUT_SIZE,
    newH |-> MODEL_INPUT_SIZE,
    padX |-> 0,
    padY |-> 0 ]

\* preprocessImage(imageData, origWidth, origHeight): the letterbox transform.
\* scale = min(S / W, S / H) is the fraction <<S, max(W, H)>>.
preprocessImage(origWidth, origHeight) ==
  LET m == Max(origWidth, origHeight)
      newW == RoundDiv(origWidth * MODEL_INPUT_SIZE, m)
      newH == RoundDiv(origHeight * MODEL_INPUT_SIZE, m)
  IN  [ scale |-> << MODEL_INPUT_SIZE, m >>,
        newW |-> newW,
        newH |-> newH,
        padX |-> RoundDiv(MODEL_INPUT_SIZE - newW, 2),
        padY |-> RoundDiv(MODEL_INPUT_SIZE - newH, 2) ]

\* An output tensor is [dims, data]; data[f * N + i] (0-based in the code)
\* is feature f of prediction i.
tensorAt(data, numPredictions, f, i) == data[f * numPredictions + i + 1]

\* const [, numFeatures, numPredictions] = outputTensor.dims: a dims array
\* that is too short leaves numPredictions undefined, and `i < undefined`
\* is false, so the decoding loop does not run.
numPredictionsOf(outputTensor) ==
  IF Len(outputTensor.dims) >= 3 THEN outputTensor.dims[3] ELSE 0

numClassesOf(outputTensor) ==
  IF Len(outputTensor.dims) >= 2 THEN outputTensor.dims[2] - 4 ELSE 0

\* A deliberately different scan, to show what the choice among equal scores
\* rests on: `>=` in the place of `>`, so that the last of them wins.
RECURSIVE scanClassesLast(_, _, _, _, _, _)
scanClassesLast(data, numPredictions, numClasses, i, c, best) ==
  IF c >= numClasses THEN best
  ELSE LET score == tensorAt(data, numPredictions, 4 + c, i)
       IN  scanClassesLast(data, numPredictions, numClasses, i, c + 1,
                           IF score >= best[1] THEN << score, c >> ELSE best)

\* the scan for the best class: best = <<maxScore, maxClassId>>
RECURSIVE scanClasses(_, _, _, _, _, _)
scanClasses(data, numPredictions, numClasses, i, c, best) ==
  IF c >= numClasses THEN best
  ELSE LET score == tensorAt(data, numPredictions, 4 + c, i)
       IN  scanClasses(data, numPredictions, numClasses, i, c + 1,
                       IF score > best[1] THEN << score, c >> ELSE best)

\* (className && CLASS_CONFIDENCE[className]) || confidenceThreshold
classThresholdOf(maxClassId, confidenceThreshold) ==
  IF maxClassId < Len(CLASS_NAMES)
  THEN CLASS_CONFIDENCE[CLASS_NAMES[maxClassId + 1]]
  ELSE confidenceThreshold

\* A deliberately different threshold test, to show what the boundary rests
\* on: `<=` in the place of `<`.
belowOrAtThreshold(maxScore, classThreshold) == maxScore <= classThreshold

\* the candidate's threshold test: `if (maxScore < classThreshold) continue`
belowThreshold(maxScore, classThreshold) == maxScore < classThreshold

\* the inverse of the letterbox, (v - pad) / scale, of a model-space
\* coordinate v given doubled; the result is in units of 1/(2 scale) pixel
toOriginal(twiceV, pad) == twiceV - 2 * pad

\* the decoding loop: the candidates that pass their threshold, with boxes
\* (x1, y1, x2, y2) = ((c -/+ size / 2 - pad) / scale) in units of 1/(2 scale) px
RECURSIVE decodeCandidates(_, _, _, _, _, _, _)
decodeCandidates(data, numPredictions, numClasses, i, confidenceThreshold, padX, padY) ==
  IF i >= numPredictions THEN <<>>
  ELSE LET cx == tensorAt(data, numPredictions, 0, i)
           cy == tensorAt(data, numPredictions, 1, i)
           w == tensorAt(data, numPredictions, 2, i)
           h == tensorAt(data, numPredictions, 3, i)
           best == scanClasses(data, numPredictions, numClasses, i, 0, << 0, 0 >>)
           rest == decodeCandidates(data, numPredictions, numClasses, i + 1,
                                    confidenceThreshold, padX, padY)
       IN  IF belowThreshold(best[1], classThresholdOf(best[2], confidenceThreshold))
           THEN rest
           ELSE << [ box |-> << toOriginal(2 * cx - w, padX), toOriginal(2 * cy - h, padY),
                                toOriginal(2 * cx + w, padX), toOriginal(2 * cy + h, padY) >>,
                     score |-> best[1],
                     classId |-> best[2] ] >> \o rest

\* Math.round(v * 100) / 100 of a coordinate v given in units of 1/(2 scale)
\* pixel, as centi-pixels
roundCoord(v, scale) == RoundDiv(CentiPx * v * scale[2], 2 * scale[1])

\* Math.round(score * 1000) / 1000, as thousandths
roundConfidence(score) == RoundDiv(score, 10)

\* the `.filter` after the rounding `.map`: w * h >= MIN_DETECTION_AREA
largeEnough(det) ==
  (det.bbox[3] - det.bbox[1]) * (det.bbox[4] - det.bbox[2])
    >= MIN_DETECTION_AREA * CentiPx * CentiPx

\* postprocessOutput(outputTensor, origWidth, origHeight, confidenceThreshold,
\*                   iouThreshold, scale, padX, padY)
postprocessOutput(outputTensor, confidenceThreshold, iouThreshold, scale, padX, padY) ==
  LET cands == decodeCandidates(outputTensor.data, numPredictionsOf(outputTensor),
                                numClassesOf(outputTensor), 0, confidenceThreshold,
                                padX, padY)
      boxes == [k \in DOMAIN cands |-> cands[k].box]
      scores == [k \in DOMAIN cands |-> cands[k].score]
      classIds == [k \in DOMAIN cands |-> cands[k].classId]
      keepIndices == nms(boxes, scores, iouThreshold, classIds)
      mapped == [k \in DOMAIN keepIndices |->
                   LET idx == keepIndices[k]
                   IN  [ category |-> classNameOf(classIds[idx]),
                         bbox |-> [c \in 1 .. 4 |-> roundCoord(boxes[idx][c], scale)],
                         confidence |-> roundConfidence(scores[idx]),
                         class_id |-> classIds[idx] ]]
  IN  SelectSeq(mapped, largeEnough)

\* --- placeholderDetect ---------------------------------------------------
\* Math.random() is a stream of draws, each a number of tenths (0 .. 9):
\* rnd = [head, rest], the k-th call returning head[k], or rest past the head.
draw(rnd, k) == IF k <= Len(rnd.head) THEN rnd.head[k] ELSE rnd.rest

\* Units per pixel of the unrounded placeholder geometry (micro-pixels).
MicroPx == CentiPx * 10000

\* bbox.map(v => Math.round(v * 100) / 100) of micro-pixel values [x, y, w, h]
roundBox(x, y, w, h) ==
  << RoundDiv(x, MicroPx \div CentiPx), RoundDiv(y, MicroPx \div CentiPx),
     RoundDiv(x + w, MicroPx \div CentiPx), RoundDiv(y + h, MicroPx \div CentiPx) >>

\* randConf() = 0.6 + Math.random() * 0.35, rounded to 3 decimals (thousandths)
randConf(r) == RoundDiv(6000 + 350 * r, 10)

placeholderDetection(category, classId, x, y, w, h, r) ==
  [ category |-> category, bbox |-> roundBox(x, y, w, h),
    confidence |-> randConf(r), class_id |-> classId ]

\* the rain loop: drop i uses the draws k+1 .. k+5 (rx, ry, rw, rh, confidence)
RECURSIVE placeholderRain(_, _, _, _, _, _)
placeholderRain(width, height, rnd, k, i, rainCount) ==
  IF i >= rainCount THEN <<>>
  ELSE << placeholderDetection("rain", 0,
            draw(rnd, k + 1) * width * 90000,
            draw(rnd, k + 2) * height * 40000,
            width * (20000 + 3000 * draw(rnd, k + 3)),
            height * (30000 + 5000 * draw(rnd, k + 4)),
            draw(rnd, k + 5)) >>
       \o placeholderRain(width, height, rnd, k + 5, i + 1, rainCount)

\* placeholderDetect(width, height), given the stream of Math.random() draws
placeholderDetect(width, height, rnd) ==
  LET personH == height * (400000 + 20000 * draw(rnd, 1))
      personW == (personH \div 1000) * (300 + 15 * draw(rnd, 2))
      personX == (width * MicroPx - personW) \div 2 + (draw(rnd, 3) - 5) * width * 10000
      personY == height * MicroPx - personH - height * 50000
      person == placeholderDetection("person", 2, personX, personY, personW, personH,
                                     draw(rnd, 4))
      rainCount == 3 + (6 * draw(rnd, 5)) \div 10
      rains == placeholderRain(width, height, rnd, 5, 0, rainCount)
      kU == 5 + 5 * rainCount + 1                   \* the draw of the umbrella test
      hasUmbrella == draw(rnd, kU) < 5
      umbW == (personW * 12) \div 10
      umbH == height * 150000
      umbrella == placeholderDetection("umbrella", 1,
                    personX - (umbW - personW) \div 2,
                    personY - umbH - height * 20000, umbW, umbH, draw(rnd, kU + 1))
      kC == IF hasUmbrella THEN kU + 2 ELSE kU + 1  \* the draw of the cloud test
      hasCloud == draw(rnd, kC) < 2
      cw == width * (200000 + 20000 * draw(rnd, kC + 1))
      ch == height * (100000 + 10000 * draw(rnd, kC + 2))
      cloud == placeholderDetection("cloud", 4,
                 (draw(rnd, kC + 3) * (width * MicroPx - cw)) \div 10,
                 draw(rnd, kC + 4) * height * 15000, cw, ch, draw(rnd, kC + 5))
      kL == IF hasCloud THEN kC + 6 ELSE kC + 1     \* the draw of the lightning test
      hasLightning == draw(rnd, kL) < 1
      lightning == placeholderDetection("lightning", 3,
                     width * (200000 + 60000 * draw(rnd, kL + 1)),
                     height * 50000, width * 50000, height * 300000, draw(rnd, kL + 2))
      kP == IF hasLightning THEN kL + 3 ELSE kL + 1 \* the draw of the puddle test
      hasPuddle == draw(rnd, kP) < 1
      pw == width * (200000 + 30000 * draw(rnd, kP + 1))
      ph == height * (50000 + 5000 * draw(rnd, kP + 2))
      puddle == placeholderDetection("puddle", 5,
                  (draw(rnd, kP + 3) * (width * MicroPx - pw)) \div 10,
                  height * MicroPx - ph - height * 20000, pw, ph, draw(rnd, kP + 4))
  IN  << person >> \o rains
        \o (IF hasUmbrella THEN << umbrella >> ELSE <<>>)
        \o (IF hasCloud THEN << cloud >> ELSE <<>>)
        \o (IF hasLightning THEN << lightning >> ELSE <<>>)
        \o (IF hasPuddle THEN << puddle >> ELSE <<>>)

\* ------------------------------------------------------------------------
\* services/db.js: the tables, as pure functions of their rows
\* ------------------------------------------------------------------------

\* `?? null` of a missing class id
Null == -1

\* the rows of a table that belong to a sketch
rowsOf(table, sketchId) == {r \in table : r.sketchId = sketchId}

\* a set of rows as the array Dexie returns: in primary-key order
RECURSIVE toArray(_)
toArray(rows) ==
  IF rows = {} THEN <<>>
  ELSE LET first == CHOOSE r \in rows : \A q \in rows : r.id <= q.id
       IN  << first >> \o toArray(rows \ {first})

\* the record saveDetections / addDetection store for a detection d; origin
\* is not a field of the code's record: it is the model's own note of where
\* the value came from ("model", "placeholder" or "manual").
detectionRecord(id, sketchId, d, origin) ==
  [ id |-> id, sketchId |-> sketchId, category |-> d.category, bbox |-> d.bbox,
    confidence |-> d.confidence, classId |-> d.class_id, origin |-> origin ]

\* the fields of a stored row that the code wrote
valueOf(r) ==
  [ category |-> r.category, bbox |-> r.bbox, confidence |-> r.confidence,
    classId |-> r.classId ]

\* db.detections.where('sketchId').equals(sketchId).delete()
deleteWhereSketch(table, sketchId) == {r \in table : r.sketchId # sketchId}

\* db.detections.bulkAdd(records): '++id' numbers the records from nextId on
bulkAdd(table, sketchId, ds, origin, nextId) ==
  table \cup { detectionRecord(nextId + i - 1, sketchId, ds[i], origin) : i \in DOMAIN ds }

\* A deliberately wrong saveDetections, to show what the replacement rests on:
\* the transaction without its delete.
saveDetectionsKeepingOld(table, sketchId, ds, origin, nextId) ==
  bulkAdd(table, sketchId, ds, origin, nextId)

\* the detections table after the transaction of saveDetections(sketchId, ds)
saveDetectionsRows(table, sketchId, ds, origin, nextId) ==
  bulkAdd(deleteWhereSketch(table, sketchId), sketchId, ds, origin, nextId)

\* db.sketches.update(sketchId, { analyzed: true }): no row, no change
markAnalyzed(sk, sketchId) ==
  IF sk[sketchId].exists THEN [sk EXCEPT ![sketchId].analyzed = TRUE] ELSE sk

\* db.detections.delete(detectionId)
deleteDetection(table, detectionId) == {r \in table : r.id # detectionId}

\* the row saveDAPRScore adds for scoreData
scoreRecord(id, sketchId, scoreData) ==
  [ id |-> id, sketchId |-> sketchId,
    stressScore |-> scoreData.stress_score,
    resourceScore |-> scoreData.resource_score,
    totalScore |-> scoreData.total_score,
    stressItems |-> scoreData.stress_items,
    resourceItems |-> scoreData.resource_items,
    interpretation |-> scoreData.interpretation ]

\* the fields of a stored score that came from scoreData
scoreValueOf(r) ==
  [ stress_score |-> r.stressScore, resource_score |-> r.resourceScore,
    total_score |-> r.totalScore, stress_items |-> r.stressItems,
    resource_items |-> r.resourceItems, interpretation |-> r.interpretation ]

\* Math.min(Math.floor(score.totalScore / 10), 9)
bucketIndex(totalScore) == Min(totalScore \div 10, 9)

\* the loop of getScoreDistribution over allScores (their totalScore):
\* buckets[idx].count++ throws a TypeError when buckets[idx] is undefined,
\* which it is for a negative idx
RECURSIVE countScores(_, _, _)
countScores(allScores, k, counts) ==
  IF k > Len(allScores) THEN [ threw |-> FALSE, counts |-> counts ]
  ELSE LET idx == bucketIndex(allScores[k])
       IN  IF idx < 0 THEN [ threw |-> TRUE, counts |-> counts ]
           ELSE countScores(allScores, k + 1, [counts EXCEPT ![idx + 1] = @ + 1])

\* getScoreDistribution(): the counts of the ten buckets 0-10, ..., 90-100
getScoreDistribution(allScores) == countScores(allScores, 1, [i \in 1 .. 10 |-> 0])

\* ------------------------------------------------------------------------
\* services/analysis.js
\* ------------------------------------------------------------------------

\* toScoringFormat(detections); a detection without a bbox has bbox = <<>>
toScoringFormat(detections) ==
  [i \in DOMAIN detections |->
     LET d == detections[i]
     IN  [ category |-> d.category,
           bbox_x |-> IF d.bbox # <<>> THEN d.bbox[1] ELSE 0,
           bbox_y |-> IF d.bbox # <<>> THEN d.bbox[2] ELSE 0,
           bbox_w |-> IF d.bbox # <<>> THEN d.bbox[3] - d.bbox[1] ELSE 0,
           bbox_h |-> IF d.bbox # <<>> THEN d.bbox[4] - d.bbox[2] ELSE 0,
           confidence |-> d.confidence ]]

\* calculateDAPRScore(toScoringFormat(detections), img.width, img.height) for
\* detections in centi-pixels and an image measured in pixels
scoreOf(detections, img) ==
  calculateDAPRScore(toScoringFormat(detections), img.width * CentiPx,
                     img.height * CentiPx, CentiPx)

\* ------------------------------------------------------------------------
\* The inputs the model enumerates
\* ------------------------------------------------------------------------

\* the callers: each runs one service call at a time
Procs == {1, 2}

\* the sketches created before the analysis calls start
NumSketches == 2

SketchIds == 1 .. NumSketches

\* the number of service calls started in one behaviour
MaxCalls == 2

\* an uploaded or drawn image, by what loading its data URL gives:
\*   "drawing": a 60 x 80 raster with strokes; "empty": an image that loads
\*   with zero width and height; "broken": a URL whose load fires onerror.
ImageUrls == {"drawing", "empty", "broken"}

Drawing == [ width |-> 60, height |-> 80, ink |-> << 20, 20, 40, 78 >> ]

EmptyRaster == [ width |-> 0, height |-> 0, ink |-> << 0, 0, 0, 0 >> ]

rasterOf(url) == IF url = "drawing" THEN Drawing ELSE EmptyRaster

\* the Math.random() streams of placeholderDetect
RandStreams ==
  { [ head |-> << 5, 5, 5, 5, 0 >>, rest |-> 5 ],
    [ head |-> << 5, 5, 5, 5, 0, 5, 5, 5, 5, 5, 5, 5, 5, 5, 5, 5, 5, 5, 5, 5, 0, 5 >>,
      rest |-> 5 ] }

\* an output tensor of shape (1, 4 + C, N) from the predictions
\* preds[i] = <<cx, cy, w, h, score_0, ..., score_(C-1)>>, feature-major
tensorOf(preds) ==
  LET n == Len(preds)
      f == Len(preds[1])
  IN  [ dims |-> << 1, f, n >>,
        data |-> [k \in 1 .. f * n |-> preds[((k - 1) % n) + 1][((k - 1) \div n) + 1]] ]

PersonPred == << 320, 448, 120, 320, 0, 0, 7750, 0, 0, 0 >>

UmbrellaPred == << 320, 208, 240, 160, 100, 9004, 0, 0, 0, 0 >>

BlankRainPred == << 540, 700, 200, 200, 8000, 0, 0, 0, 0, 0 >>

\* what `await session.run(feeds)` can give: a rejection, a well-formed
\* tensor, or an output whose dims array has the wrong rank
RunOutcomes ==
  { [ kind |-> "reject" ],
    [ kind |-> "tensor", tensor |-> tensorOf(<< PersonPred >>) ],
    [ kind |-> "tensor",
      tensor |-> tensorOf(<< BlankRainPred, PersonPred, UmbrellaPred >>) ],
    [ kind |-> "malformed", tensor |-> [ dims |-> << 1, 10 >>, data |-> <<>> ] ] }

\* the detections a user adds by hand
ManualDetections ==
  { [ category |-> "umbrella", bbox |-> << 1500, 1600, 4500, 3600 >>,
      confidence |-> 1000, class_id |-> Null ] }

\* ------------------------------------------------------------------------
\* The state
\* ------------------------------------------------------------------------

VARIABLES
  sketches,       \* db.sketches: id -> [exists, imageDataUrl, analyzed]
  detections,     \* db.detections: the set of rows
  daprScores,     \* db.daprScores: the set of rows
  nextDetId,      \* the '++id' counter of db.detections
  nextScoreId,    \* the '++id' counter of db.daprScores
  ort,            \* detection.js `ort`: TRUE once the runtime is imported
  cachedSession,  \* detection.js `cachedSession`: 0 is null, else a session
  sessionsCreated,\* the sessions InferenceSession.create has returned so far
  procs,          \* the service call each caller is in, and its locals
  calls,          \* the number of calls started
  nmsRun,         \* a call of nms on its own: its arguments and results
  decodeRun,      \* preprocessImage and postprocessOutput on their own
  scoreRun,       \* calculateDAPRScore / getInterpretation on their own
  ui              \* the view that is mounted, its refs and pending handlers

vars == << sketches, detections, daprScores, nextDetId, nextScoreId, ort,
           cachedSession, sessionsCreated, procs, calls, nmsRun, decodeRun,
           scoreRun, ui >>

runVars == << nmsRun, decodeRun, scoreRun, ui >>

dbVars == << sketches, detections, daprScores, nextDetId, nextScoreId >>

onnxVars == << ort, cachedSession, sessionsCreated >>

NoValue == [ none |-> TRUE ]

\* what db.sketches.get(id) gives for a key that has no row
Undefined == [ exists |-> FALSE, imageDataUrl |-> "none", analyzed |-> FALSE ]

NoNmsRun ==
  [ phase |-> "none", boxes |-> <<>>, scores |-> <<>>, classIds |-> <<>>,
    iouThreshold |-> << 0, 1 >>, keep |-> <<>>, legacyKeep |-> <<>>,
    agnosticKeep |-> <<>>, again |-> <<>> ]

NoLetterbox == [ scale |-> << 1, 1 >>, newW |-> 0, newH |-> 0, padX |-> 0, padY |-> 0 ]

NoTensor == [ dims |-> << 1, 4, 0 >>, data |-> <<>> ]

NoDecodeRun ==
  [ phase |-> "none", width |-> 0, height |-> 0, outputTensor |-> NoTensor,
    confidenceThreshold |-> 0, letterbox |-> NoLetterbox, cands |-> <<>>,
    dets |-> <<>>, returned |-> <<>>, region |-> <<>> ]

NoScoreRun ==
  [ phase |-> "none", detections |-> {}, imageWidth |-> 0, imageHeight |-> 0,
    totalScore |-> 0, result |-> NoValue, interpretation |-> "none",
    allScores |-> <<>>, distribution |-> NoValue ]

\* what dashData holds: null, or the sketch's detections and score as
\* getDashboardData read them ("threw" is getDashboardData's rejection)
NoDashData == [ kind |-> "null", detections |-> <<>>, daprScore |-> NoValue ]

\* the app as it starts: the sketch list is mounted (its ref analyzing is
\* null, 0 here); the refs of the dashboard are those of its setup.
\* removedIds is the Set in insertion order; while the loop of
\* saveCorrections iterates it, a deleted entry stays as 0 and cursor is the
\* entry the loop is at, as the Set iterator has it
NoUi ==
  [ route |-> "list", listAnalyzing |-> 0, handler |-> [p \in Procs |-> "none"],
    sketchId |-> 0, loading |-> TRUE, analyzing |-> FALSE,
    savingCorrections |-> FALSE, editMode |-> FALSE, confidenceThreshold |-> 300,
    removedIds |-> <<>>, cursor |-> 0, dashData |-> NoDashData ]

\* the locals of a service call; found, origin, failed and wrote are notes
\* of the model about the call: whether getSketchById found a row, where
\* the detections came from, whether inference failed, whether a score row
\* was added
IdleProc ==
  [ op |-> "idle", pc |-> "idle", sid |-> 0, useOnnx |-> FALSE, detId |-> 0,
    manual |-> NoValue, found |-> FALSE, url |-> "none", img |-> EmptyRaster,
    dets |-> <<>>, origin |-> "none", failed |-> FALSE, session |-> 0,
    score |-> NoValue, wrote |-> FALSE, outcome |-> "none" ]

InitStore ==
  /\ detections = {}
  /\ daprScores = {}
  /\ nextDetId = 1
  /\ nextScoreId = 1
  /\ ort = FALSE
  /\ cachedSession = 0
  /\ sessionsCreated = 0
  /\ procs = [p \in Procs |-> IdleProc]
  /\ calls = 0
  /\ ui = NoUi

\* createSketch has run NumSketches times: sketch 1 is a drawing, the others
\* are any image a user can upload, or have been deleted again
Init ==
  /\ sketches \in { sk \in [SketchIds -> { [ exists |-> TRUE, imageDataUrl |-> u,
                                              analyzed |-> FALSE ] : u \in ImageUrls }
                                          \cup {Undefined}] :
                      sk[1].imageDataUrl = "drawing" }
  /\ InitStore
  /\ nmsRun = NoNmsRun
  /\ decodeRun = NoDecodeRun
  /\ scoreRun = NoScoreRun

\* ------------------------------------------------------------------------
\* The calls
\* ------------------------------------------------------------------------

\* a caller starts a call when its previous one has settled
CanCall(p, sid) == procs[p].pc \in {"idle", "done"} /\ calls < MaxCalls

Begin(p, rec) ==
  /\ procs' = [procs EXCEPT ![p] = rec]
  /\ calls' = calls + 1
  /\ UNCHANGED << dbVars, onnxVars, runVars >>

\* runAnalysis(sketchId, { useOnnx })
CallRunAnalysis(p, sid, useOnnx) ==
  Begin(p, [IdleProc EXCEPT !.op = "runAnalysis", !.pc = "getSketch", !.sid = sid,
                            !.useOnnx = useOnnx])

\* recalculateScore(sketchId)
CallRecalculateScore(p, sid) ==
  Begin(p, [IdleProc EXCEPT !.op = "recalculateScore", !.pc = "getSketch", !.sid = sid])

\* removeDetection(sketchId, detectionId)
CallRemoveDetection(p, sid, detId) ==
  Begin(p, [IdleProc EXCEPT !.op = "removeDetection", !.pc = "deleteDetection",
                            !.sid = sid, !.detId = detId])

\* addManualDetection(sketchId, detection)
CallAddManualDetection(p, sid, d) ==
  Begin(p, [IdleProc EXCEPT !.op = "addManualDetection", !.pc = "addDetection",
                            !.sid = sid, !.manual = d])

\* getAnalysisResults(sketchId)
CallGetAnalysisResults(p, sid) ==
  Begin(p, [IdleProc EXCEPT !.op = "getAnalysisResults", !.pc = "readDetections",
                            !.sid = sid])

\* warmupModel()
CallWarmupModel(p) ==
  Begin(p, [IdleProc EXCEPT !.op = "warmupModel", !.pc = "warmup"])

\* the call settles: its locals go out of scope, the model keeps its notes
\* and, of a resolved call, the detections and the score it returns
Finish(rec, outcome) ==
  [IdleProc EXCEPT !.op = rec.op, !.pc = "done", !.sid = rec.sid,
                   !.useOnnx = rec.useOnnx, !.found = rec.found, !.url = rec.url,
                   !.origin = rec.origin, !.failed = rec.failed, !.wrote = rec.wrote,
                   !.dets = IF outcome = "resolved" THEN rec.dets ELSE <<>>,
                   !.score = IF outcome = "resolved" THEN rec.score ELSE NoValue,
                   !.outcome = outcome]

\* a step of caller p that touches only its own locals
Step(p, rec) ==
  /\ procs' = [procs EXCEPT ![p] = rec]
  /\ UNCHANGED << calls, runVars >>

\* db.sketches.get(id)
getSketchById(sk, id) == IF id \in DOMAIN sk /\ sk[id].exists THEN sk[id] ELSE Undefined

\* A deliberately wrong loadImage, to show what the failure rests on: every
\* URL loads.
imageLoadsAlways(url) == TRUE

\* loadImage(dataUrl) resolves (onload) or rejects (onerror)
imageLoads(url) == url \in {"drawing", "empty"}

\* `const sketch = await getSketchById(sketchId)` with the lines up to the
\* next read of shared state: the null check of runAnalysis (recalculateScore
\* has none, and `sketch.imageDataUrl` throws a TypeError on undefined) and
\* `await loadImage(sketch.imageDataUrl)`, which reads only the local sketch.
GetSketchById(p) ==
  LET rec == procs[p]
      sketch == getSketchById(sketches, rec.sid)
      got == [rec EXCEPT !.found = sketches[rec.sid].exists, !.url = sketch.imageDataUrl]
  IN  /\ rec.pc = "getSketch"
      /\ Step(p, IF ~sketch.exists THEN Finish(got, "rejected")
                 ELSE IF ~imageLoads(sketch.imageDataUrl) THEN Finish(got, "rejected")
                 ELSE [got EXCEPT !.img = rasterOf(sketch.imageDataUrl),
                                  !.pc = IF rec.op = "runAnalysis" THEN "detect"
                                         ELSE "getDetections"])
      /\ UNCHANGED << dbVars, onnxVars >>

\* the catch block of detectObjects: placeholderDetect(width, height)
fallback(rec, rnd) ==
  [rec EXCEPT !.dets = placeholderDetect(rec.img.width, rec.img.height, rnd),
              !.origin = "placeholder", !.failed = TRUE, !.pc = "saveDetections"]

\* what a rejection inside a try block leads to: the catch of detectObjects
\* falls back to the placeholder, the catch of warmupModel is empty
caught(rec, rnd) ==
  IF rec.op = "warmupModel" THEN Finish(rec, "resolved") ELSE fallback(rec, rnd)

\* warmupModel up to its first await: the first lines of getOnnxSession
WarmupModel(p) ==
  LET rec == procs[p]
  IN  /\ rec.pc = "warmup"
      /\ Step(p, IF cachedSession # 0
                 THEN [rec EXCEPT !.session = cachedSession, !.pc = "run"]
                 ELSE IF ~ort THEN [rec EXCEPT !.pc = "import"]
                 ELSE [rec EXCEPT !.pc = "create"])
      /\ UNCHANGED << dbVars, onnxVars >>

\* detectObjects up to its second await: getCanvasFromSource, the placeholder
\* mode, getImageData (which throws IndexSizeError on a zero width or height,
\* before the try block), and the first lines of getOnnxSession
DetectObjects(p) ==
  LET rec == procs[p]
      width == rec.img.width
      height == rec.img.height
  IN  /\ rec.pc = "detect"
      /\ \E rnd \in RandStreams :
           Step(p, IF ~rec.useOnnx
                   THEN [rec EXCEPT !.dets = placeholderDetect(width, height, rnd),
                                    !.origin = "placeholder", !.pc = "saveDetections"]
                   ELSE IF width = 0 \/ height = 0 THEN Finish(rec, "rejected")
                   ELSE IF cachedSession # 0
                        THEN [rec EXCEPT !.session = cachedSession, !.pc = "run"]
                   ELSE IF ~ort THEN [rec EXCEPT !.pc = "import"]
                   ELSE [rec EXCEPT !.pc = "create"])
      /\ UNCHANGED << dbVars, onnxVars >>

\* `ort = await import('onnxruntime-web')`
ImportOrt(p) ==
  LET rec == procs[p]
  IN  /\ rec.pc = "import"
      /\ \/ /\ ort' = TRUE
            /\ Step(p, [rec EXCEPT !.pc = "create"])
         \/ /\ \E rnd \in RandStreams : Step(p, caught(rec, rnd))
            /\ UNCHANGED ort
      /\ UNCHANGED << dbVars, cachedSession, sessionsCreated >>

\* `cachedSession = await ort.InferenceSession.create(..., ['webgl', 'wasm'])`
CreateSession(p) ==
  LET rec == procs[p]
  IN  /\ rec.pc = "create"
      /\ \/ /\ sessionsCreated' = sessionsCreated + 1
            /\ cachedSession' = sessionsCreated + 1
            /\ Step(p, [rec EXCEPT !.session = sessionsCreated + 1, !.pc = "run"])
         \/ /\ Step(p, [rec EXCEPT !.pc = "createWasm"])
            /\ UNCHANGED << cachedSession, sessionsCreated >>
      /\ UNCHANGED << dbVars, ort >>

\* the catch of getOnnxSession: the same with ['wasm'] only
CreateSessionWasm(p) ==
  LET rec == procs[p]
  IN  /\ rec.pc = "createWasm"
      /\ \/ /\ sessionsCreated' = sessionsCreated + 1
            /\ cachedSession' = sessionsCreated + 1
            /\ Step(p, [rec EXCEPT !.session = sessionsCreated + 1, !.pc = "run"])
         \/ /\ \E rnd \in RandStreams : Step(p, caught(rec, rnd))
            /\ UNCHANGED << cachedSession, sessionsCreated >>
      /\ UNCHANGED << dbVars, ort >>

\* `await session.run(feeds)`, postprocessOutput and filterByContent; the
\* dummy run of warmupModel settles the call whatever it gives
RunSession(p) ==
  LET rec == procs[p]
      pre == preprocessImage(rec.img.width, rec.img.height)
      decoded(tensor) ==
        filterByContent(
          postprocessOutput(tensor, DefaultConfidenceThreshold, DefaultIouThreshold,
                            pre.scale, pre.padX, pre.padY),
          rec.img, rec.img.width)
  IN  /\ rec.pc = "run"
      /\ \E o \in RunOutcomes : \E rnd \in RandStreams :
           Step(p, IF rec.op = "warmupModel" THEN Finish(rec, "resolved")
                   ELSE IF o.kind = "reject" THEN fallback(rec, rnd)
                   ELSE [rec EXCEPT !.dets = decoded(o.tensor), !.origin = "model",
                                    !.failed = (o.kind = "malformed"),
                                    !.pc = "saveDetections"])
      /\ UNCHANGED << dbVars, onnxVars >>

\* `await saveDetections(sketchId, detections)`: one Dexie transaction; then
\* toScoringFormat and calculateDAPRScore on the local detections
SaveDetections(p) ==
  LET rec == procs[p]
  IN  /\ rec.pc = "saveDetections"
      /\ detections' = saveDetectionsRows(detections, rec.sid, rec.dets, rec.origin,
                                          nextDetId)
      /\ nextDetId' = nextDetId + Len(rec.dets)
      /\ sketches' = markAnalyzed(sketches, rec.sid)
      /\ Step(p, [rec EXCEPT !.score = scoreOf(rec.dets, rec.img), !.pc = "scoreDelete"])
      /\ UNCHANGED << daprScores, nextScoreId, onnxVars >>

\* `const detections = await getDetections(sketchId)`, toScoringFormat and
\* calculateDAPRScore on the rows read
GetDetections(p) ==
  LET rec == procs[p]
      rows == toArray(rowsOf(detections, rec.sid))
  IN  /\ rec.pc = "getDetections"
      /\ Step(p, [rec EXCEPT !.dets = [i \in DOMAIN rows |-> valueOf(rows[i])],
                             !.score = scoreOf(rows, rec.img), !.pc = "scoreDelete"])
      /\ UNCHANGED << dbVars, onnxVars >>

\* saveDAPRScore, first await: db.daprScores.where('sketchId').equals(..).delete()
SaveScoreDelete(p) ==
  LET rec == procs[p]
  IN  /\ rec.pc = "scoreDelete"
      /\ daprScores' = deleteWhereSketch(daprScores, rec.sid)
      /\ Step(p, [rec EXCEPT !.pc = "scoreAdd"])
      /\ UNCHANGED << sketches, detections, nextDetId, nextScoreId, onnxVars >>

\* saveDAPRScore, second await: db.daprScores.add(..); the get(id) that
\* follows gives a value no caller in analysis.js uses
SaveScoreAdd(p) ==
  LET rec == procs[p]
  IN  /\ rec.pc = "scoreAdd"
      /\ daprScores' = daprScores \cup {scoreRecord(nextScoreId, rec.sid, rec.score)}
      /\ nextScoreId' = nextScoreId + 1
      /\ Step(p, Finish([rec EXCEPT !.wrote = TRUE], "resolved"))
      /\ UNCHANGED << sketches, detections, nextDetId, onnxVars >>

\* removeDetection: `await deleteDetection(detectionId)`
DeleteDetection(p) ==
  LET rec == procs[p]
  IN  /\ rec.pc = "deleteDetection"
      /\ detections' = deleteDetection(detections, rec.detId)
      /\ Step(p, [rec EXCEPT !.pc = "getSketch"])
      /\ UNCHANGED << sketches, daprScores, nextDetId, nextScoreId, onnxVars >>

\* addManualDetection: `await addDetection(sketchId, detection)`
AddDetection(p) ==
  LET rec == procs[p]
  IN  /\ rec.pc = "addDetection"
      /\ detections' = detections \cup
                         {detectionRecord(nextDetId, rec.sid, rec.manual, "manual")}
      /\ nextDetId' = nextDetId + 1
      /\ Step(p, [rec EXCEPT !.pc = "getSketch"])
      /\ UNCHANGED << sketches, daprScores, nextScoreId, onnxVars >>

\* getAnalysisResults: `await getDetections(sketchId)`
ReadDetections(p) ==
  LET rec == procs[p]
      rows == toArray(rowsOf(detections, rec.sid))
  IN  /\ rec.pc = "readDetections"
      /\ Step(p, [rec EXCEPT !.dets = [i \in DOMAIN rows |-> valueOf(rows[i])],
                             !.pc = "readScore"])
      /\ UNCHANGED << dbVars, onnxVars >>

\* db.daprScores.where('sketchId').equals(sketchId).first()
getDAPRScore(table, sketchId) ==
  LET rows == toArray(rowsOf(table, sketchId))
  IN  IF rows = <<>> THEN NoValue ELSE scoreValueOf(rows[1])

\* getAnalysisResults: `await getDAPRScore(sketchId)`
ReadScore(p) ==
  LET rec == procs[p]
  IN  /\ rec.pc = "readScore"
      /\ Step(p, Finish([rec EXCEPT !.score = getDAPRScore(daprScores, rec.sid)],
                        "resolved"))
      /\ UNCHANGED << dbVars, onnxVars >>

\* deleteSketch(id): one Dexie transaction over sketches, detections, scores
DeleteSketch(p, sid) ==
  /\ sketches' = [sketches EXCEPT ![sid] = Undefined]
  /\ detections' = IF sketches[sid].exists THEN deleteWhereSketch(detections, sid)
                   ELSE detections
  /\ daprScores' = IF sketches[sid].exists THEN deleteWhereSketch(daprScores, sid)
                   ELSE daprScores
  /\ procs' = [procs EXCEPT ![p] = Finish([IdleProc EXCEPT !.op = "deleteSketch",
                                                            !.sid = sid], "resolved")]
  /\ calls' = calls + 1
  /\ UNCHANGED << nextDetId, nextScoreId, onnxVars, runVars >>

\* the detection ids a caller can pass: the id of a stored row, or 0 for an
\* id that no row has (any more)
DetectionIds == {r.id : r \in detections} \cup {0}

\* a call in flight runs to its next await
Advance ==
  \E p \in Procs :
    \/ GetSketchById(p)
    \/ WarmupModel(p)
    \/ DetectObjects(p)
    \/ ImportOrt(p)
    \/ CreateSession(p)
    \/ CreateSessionWasm(p)
    \/ RunSession(p)
    \/ SaveDetections(p)
    \/ GetDetections(p)
    \/ SaveScoreDelete(p)
    \/ SaveScoreAdd(p)
    \/ DeleteDetection(p)
    \/ AddDetection(p)
    \/ ReadDetections(p)
    \/ ReadScore(p)

\* The callers are independent (views, tabs): calls interleave at their awaits.
Next ==
  \/ \E p \in Procs : \E sid \in SketchIds : \E useOnnx \in BOOLEAN :
       CanCall(p, sid) /\ CallRunAnalysis(p, sid, useOnnx)
  \/ \E p \in Procs : \E sid \in SketchIds :
       CanCall(p, sid) /\ CallRecalculateScore(p, sid)
  \/ \E p \in Procs : \E sid \in SketchIds : \E detId \in DetectionIds :
       CanCall(p, sid) /\ CallRemoveDetection(p, sid, detId)
  \/ \E p \in Procs : \E sid \in SketchIds : \E d \in ManualDetections :
       CanCall(p, sid) /\ CallAddManualDetection(p, sid, d)
  \/ \E p \in Procs : \E sid \in SketchIds :
       CanCall(p, sid) /\ CallGetAnalysisResults(p, sid)
  \/ \E p \in Procs : \E sid \in SketchIds :
       CanCall(p, sid) /\ DeleteSketch(p, sid)
  \/ \E p \in Procs : CanCall(p, 0) /\ CallWarmupModel(p)
  \/ Advance

Spec == Init /\ [][Next]_vars

\* The same program when its callers serialize the calls per sketch: a call
\* on a sketch starts only when no other call on that sketch is in flight.
NoCallInFlightOn(sid) ==
  \A q \in Procs : procs[q].pc \in {"idle", "done"} \/ procs[q].sid # sid

CanCallSerial(p, sid) == CanCall(p, sid) /\ NoCallInFlightOn(sid)

NextSerial ==
  \/ \E p \in Procs : \E sid \in SketchIds : \E useOnnx \in BOOLEAN :
       CanCallSerial(p, sid) /\ CallRunAnalysis(p, sid, useOnnx)
  \/ \E p \in Procs : \E sid \in SketchIds :
       CanCallSerial(p, sid) /\ CallRecalculateScore(p, sid)
  \/ \E p \in Procs : \E sid \in SketchIds : \E detId \in DetectionIds :
       CanCallSerial(p, sid) /\ CallRemoveDetection(p, sid, detId)
  \/ \E p \in Procs : \E sid \in SketchIds : \E d \in ManualDetections :
       CanCallSerial(p, sid) /\ CallAddManualDetection(p, sid, d)
  \/ \E p \in Procs : \E sid \in SketchIds :
       CanCallSerial(p, sid) /\ CallGetAnalysisResults(p, sid)
  \/ \E p \in Procs : \E sid \in SketchIds :
       CanCallSerial(p, sid) /\ DeleteSketch(p, sid)
  \/ \E p \in Procs : CanCallSerial(p, 0) /\ CallWarmupModel(p)
  \/ Advance

SpecSerial == Init /\ [][NextSerial]_vars

\* ------------------------------------------------------------------------
\* nms on its own: the candidate lists a decoding can hand to it
\* ------------------------------------------------------------------------

\* the longest candidate list
MaxCandidates == 3

\* boxes (x1, y1, x2, y2): the first two overlap with IoU 5/6, the first and
\* the third with IoU 1/3, the fourth is apart from all
NmsBoxes == { << 0, 0, 10, 10 >>, << 0, 0, 10, 12 >>, << 0, 5, 10, 15 >>,
              << 20, 20, 30, 30 >> }

NmsScores == { 6000, 9000 }

NmsClassIds == { 0, 2 }

\* the default 0.45, 0.3, and 1/3, which is the IoU of the first and the
\* third box exactly
NmsThresholds == { DefaultIouThreshold, << 3, 10 >>, << 1, 3 >> }

\* the detection.js under src/services of the second copy of the app: its
\* nms(boxes, scores, iouThreshold) has no class ids, and its inner loop
\* skips the indices j <= i
RECURSIVE nmsLegacyOuter(_, _, _, _, _, _)
nmsLegacyOuter(indices, si, boxes, iouThreshold, keep, suppressed) ==
  IF si > Len(indices) THEN keep
  ELSE LET i == indices[si]
       IN  IF i \in suppressed
           THEN nmsLegacyOuter(indices, si + 1, boxes, iouThreshold, keep, suppressed)
           ELSE nmsLegacyOuter(indices, si + 1, boxes, iouThreshold, Append(keep, i),
                  suppressed \cup
                    { j \in Range(indices) :
                        /\ ~(j <= i \/ j \in suppressed)
                        /\ FracGreater(calculateIoU(boxes[i], boxes[j]), iouThreshold) })

nmsLegacy(boxes, scores, iouThreshold) ==
  nmsLegacyOuter(sortByScore(scores), 1, boxes, iouThreshold, <<>>, {})

\* the elements of s at the positions idx
pick(s, idx) == [k \in DOMAIN idx |-> s[idx[k]]]

InitNms ==
  /\ sketches = [s \in SketchIds |-> [ exists |-> TRUE, imageDataUrl |-> "drawing",
                                        analyzed |-> FALSE ]]
  /\ InitStore
  /\ \E n \in 0 .. MaxCandidates :
       \E boxes \in [1 .. n -> NmsBoxes] : \E scores \in [1 .. n -> NmsScores] :
         \E classIds \in [1 .. n -> NmsClassIds] : \E t \in NmsThresholds :
           nmsRun = [NoNmsRun EXCEPT !.phase = "candidates", !.boxes = boxes,
                                     !.scores = scores, !.classIds = classIds,
                                     !.iouThreshold = t]
  /\ decodeRun = NoDecodeRun
  /\ scoreRun = NoScoreRun

\* keepIndices = nms(boxes, scores, iouThreshold, classIds), what the
\* other copy's nms(boxes, scores, iouThreshold) keeps of the same
\* candidates, and what nms keeps of them with classIds left at its default
\* null
ApplyNms ==
  /\ nmsRun.phase = "candidates"
  /\ nmsRun' = [nmsRun EXCEPT !.phase = "kept",
                              !.keep = nms(nmsRun.boxes, nmsRun.scores,
                                           nmsRun.iouThreshold, nmsRun.classIds),
                              !.legacyKeep = nmsLegacy(nmsRun.boxes, nmsRun.scores,
                                                       nmsRun.iouThreshold),
                              !.agnosticKeep = nms(nmsRun.boxes, nmsRun.scores,
                                                   nmsRun.iouThreshold, <<>>)]
  /\ UNCHANGED << dbVars, onnxVars, procs, calls, ui, decodeRun, scoreRun >>

\* nms again, on the candidates it kept
ReapplyNms ==
  /\ nmsRun.phase = "kept"
  /\ nmsRun' = [nmsRun EXCEPT !.phase = "again",
                              !.again = nms(pick(nmsRun.boxes, nmsRun.keep),
                                            pick(nmsRun.scores, nmsRun.keep),
                                            nmsRun.iouThreshold,
                                            pick(nmsRun.classIds, nmsRun.keep))]
  /\ UNCHANGED << dbVars, onnxVars, procs, calls, ui, decodeRun, scoreRun >>

NextNms == ApplyNms \/ ReapplyNms

SpecNms == InitNms /\ [][NextNms]_vars

\* ------------------------------------------------------------------------
\* The letterbox and the decoder on their own: onnxInference without the
\* session
\* ------------------------------------------------------------------------

\* the largest of the small image sides
MaxSide == 6

\* the sides of the images: the small ones, and sides around and above the
\* model's input size
ImageSides == (1 .. MaxSide) \cup {60, 80, 400, 600, 641, 1300, 1920}

\* the image sizes the tensors are decoded for
DecodedSizes == { << 60, 80 >>, << 400, 600 >>, << 100, 100 >> }

\* the longest output tensor (N)
MaxPredictions == 2

\* predictions <<cx, cy, w, h, score_0 .. score_6>> of a model with seven
\* classes: a person at exactly its threshold 0.5, one just below, a person
\* above it in the same place, an umbrella, a rain at 0.5 (below its 0.6),
\* a seventh class at 0.25, and three with two equal top scores: umbrella and
\* person, rain and person (0.55, between their thresholds), person and the
\* seventh class (0.4); the seventh class at 0.9; a person whose width and
\* height are negative; and a person box of 9.875 x 40.5 px on the 60 x 80
\* image, 399.94 px^2 before its corners are rounded and 400.14 px^2 after.
\* A Float32Array holds 0.5 and 0.25 exactly, but no value equal to the
\* double 0.6.
DecodePreds ==
  { << 320, 448, 120, 320, 0, 0, 5000, 0, 0, 0, 0 >>,
    << 320, 448, 120, 320, 0, 0, 4999, 0, 0, 0, 0 >>,
    << 320, 448, 120, 320, 0, 0, 7000, 0, 0, 0, 0 >>,
    << 320, 208, 240, 160, 100, 9000, 0, 0, 0, 0, 0 >>,
    << 200, 100, 80, 80, 5000, 0, 0, 0, 0, 0, 0 >>,
    << 400, 300, 100, 100, 0, 0, 0, 0, 0, 0, 2500 >>,
    << 320, 208, 240, 160, 0, 7000, 7000, 0, 0, 0, 0 >>,
    << 200, 100, 80, 80, 5500, 0, 5500, 0, 0, 0, 0 >>,
    << 400, 300, 100, 100, 0, 0, 4000, 0, 0, 0, 4000 >>,
    << 320, 300, 160, 200, 0, 0, 0, 0, 0, 0, 9000 >>,
    << 320, 448, -120, -320, 0, 0, 7000, 0, 0, 0, 0 >>,
    << 320, 320, 79, 324, 0, 0, 7000, 0, 0, 0, 0 >> }

\* options.confidenceThreshold: the default 0.5, and 0.25
DecodeThresholds == { DefaultConfidenceThreshold, 2500 }

InitDecode ==
  /\ sketches = [s \in SketchIds |-> [ exists |-> TRUE, imageDataUrl |-> "drawing",
                                        analyzed |-> FALSE ]]
  /\ InitStore
  /\ nmsRun = NoNmsRun
  /\ scoreRun = NoScoreRun
  /\ \E t \in DecodeThresholds :
       \/ \E w \in ImageSides : \E h \in ImageSides :
            decodeRun = [NoDecodeRun EXCEPT !.phase = "image", !.width = w,
                                            !.height = h, !.confidenceThreshold = t,
                                            !.outputTensor = [ dims |-> << 1, 11, 0 >>,
                                                               data |-> <<>> ]]
       \/ \E size \in DecodedSizes : \E n \in 1 .. MaxPredictions :
            \E preds \in [1 .. n -> DecodePreds] :
              decodeRun = [NoDecodeRun EXCEPT !.phase = "image", !.width = size[1],
                                              !.height = size[2],
                                              !.confidenceThreshold = t,
                                              !.outputTensor = tensorOf(preds)]

\* onnxInference: `preprocessImage(imageData, origWidth, origHeight)`
PreprocessImage ==
  /\ decodeRun.phase = "image"
  /\ decodeRun' = [decodeRun EXCEPT !.phase = "letterboxed",
                                    !.letterbox = preprocessImage(decodeRun.width,
                                                                  decodeRun.height)]
  /\ UNCHANGED << dbVars, onnxVars, procs, calls, ui, nmsRun, scoreRun >>

\* onnxInference: `postprocessOutput(output, ..., scale, padX, padY)`; cands
\* are the candidates its decoding loop pushes
PostprocessOutput ==
  LET lb == decodeRun.letterbox
      t == decodeRun.outputTensor
  IN  /\ decodeRun.phase = "letterboxed"
      /\ decodeRun' =
           [decodeRun EXCEPT
              !.phase = "decoded",
              !.cands = decodeCandidates(t.data, numPredictionsOf(t), numClassesOf(t), 0,
                                         decodeRun.confidenceThreshold, lb.padX, lb.padY),
              !.dets = postprocessOutput(t, decodeRun.confidenceThreshold,
                                         DefaultIouThreshold, lb.scale, lb.padX, lb.padY)]
      /\ UNCHANGED << dbVars, onnxVars, procs, calls, ui, nmsRun, scoreRun >>

\* the decoder's inverse mapping applied to the corners of the region that
\* drawImage(srcCanvas, padX, padY, newW, newH) drew
InvertDrawnRegion ==
  LET lb == decodeRun.letterbox
  IN  /\ decodeRun.phase = "decoded"
      /\ decodeRun' =
           [decodeRun EXCEPT
              !.phase = "inverted",
              !.region = << toOriginal(2 * lb.padX, lb.padX),
                            toOriginal(2 * lb.padY, lb.padY),
                            toOriginal(2 * (lb.padX + lb.newW), lb.padX),
                            toOriginal(2 * (lb.padY + lb.newH), lb.padY) >>]
      /\ UNCHANGED << dbVars, onnxVars, procs, calls, ui, nmsRun, scoreRun >>

\* detectObjects: `return filterByContent(detections, imageData, width)`, for
\* a sketch that has ink on every pixel
FilterByContent ==
  LET imageData == [ width |-> decodeRun.width, height |-> decodeRun.height,
                     ink |-> << 0, 0, decodeRun.width, decodeRun.height >> ]
  IN  /\ decodeRun.phase = "decoded"
      /\ decodeRun' =
           [decodeRun EXCEPT
              !.phase = "filtered",
              !.returned = filterByContent(decodeRun.dets, imageData, decodeRun.width)]
      /\ UNCHANGED << dbVars, onnxVars, procs, calls, ui, nmsRun, scoreRun >>

NextDecode ==
  PreprocessImage \/ PostprocessOutput \/ InvertDrawnRegion \/ FilterByContent

SpecDecode == InitDecode /\ [][NextDecode]_vars

\* ------------------------------------------------------------------------
\* The scoring engine on its own: calculateDAPRScore and getInterpretation
\* ------------------------------------------------------------------------

\* the longest list of detections drawn from the pool
MaxDetections == 3

\* the largest |totalScore| given to getInterpretation
MaxTotal == 20

\* a detection in the format of calculateDAPRScore's argument, in pixels
scoringDetection(category, x, y, w, h) ==
  [ category |-> category, bbox_x |-> x, bbox_y |-> y, bbox_w |-> w, bbox_h |-> h,
    confidence |-> 900 ]

\* the pool: a person in the middle of a 400 x 600 page, the person of the
\* exposed-person scenario, a small and a large person, a rain drop on the
\* first person, one apart, an umbrella over the first person, a lightning
\* next to it, a puddle under it, and two records without their box numbers
DetectionPool ==
  { scoringDetection("person", 140, 200, 120, 200),
    scoringDetection("person", 100, 300, 120, 200),
    scoringDetection("person", 190, 280, 20, 40),
    scoringDetection("person", 50, 10, 300, 580),
    scoringDetection("rain", 150, 250, 100, 100),
    scoringDetection("rain", 10, 10, 20, 20),
    scoringDetection("umbrella", 130, 150, 140, 100),
    scoringDetection("lightning", 150, 100, 50, 180),
    scoringDetection("puddle", 120, 380, 160, 40),
    scoringDetection("person", NaN, NaN, NaN, NaN),
    scoringDetection("rain", 150, 250, 100, NaN) }

\* six small rain boxes above y = 150, in two layouts
RainLayouts ==
  { [i \in 1 .. 6 |-> scoringDetection("rain", 50 * i, 20 + 10 * i, 20, 30)],
    [i \in 1 .. 6 |-> scoringDetection("rain", 380 - 60 * i, 110, 12, 40)] }

\* the exposed-person scenario: one person box (100, 300)-(220, 500), six
\* rain boxes, no umbrella
ExposedPerson ==
  { << scoringDetection("person", 100, 300, 120, 200) >> \o rains : rains \in RainLayouts }

\* imageWidth, imageHeight
ScoreSizes == { << 400, 600 >>, << 60, 80 >>, << 1, 1 >>, << 1920, 1080 >> }

InitScore ==
  /\ sketches = [s \in SketchIds |-> [ exists |-> TRUE, imageDataUrl |-> "drawing",
                                        analyzed |-> FALSE ]]
  /\ InitStore
  /\ nmsRun = NoNmsRun
  /\ decodeRun = NoDecodeRun
  /\ \/ \E size \in ScoreSizes :
          \/ scoreRun = [NoScoreRun EXCEPT !.phase = "detections", !.detections = {},
                                           !.imageWidth = size[1],
                                           !.imageHeight = size[2]]
          \/ \E n \in 0 .. MaxDetections : \E ds \in [1 .. n -> DetectionPool] :
               scoreRun = [NoScoreRun EXCEPT !.phase = "detections",
                                             !.detections = {ds},
                                             !.imageWidth = size[1],
                                             !.imageHeight = size[2]]
     \/ \E ds \in ExposedPerson :
          scoreRun = [NoScoreRun EXCEPT !.phase = "detections", !.detections = {ds},
                                        !.imageWidth = 400, !.imageHeight = 600]
     \/ \E t \in (0 - MaxTotal) .. MaxTotal :
          scoreRun = [NoScoreRun EXCEPT !.phase = "total", !.totalScore = t]

\* calculateDAPRScore(detections, imageWidth, imageHeight)
CalculateDAPRScore ==
  /\ scoreRun.phase = "detections"
  /\ scoreRun' = [scoreRun EXCEPT
                    !.phase = "scored",
                    !.result = calculateDAPRScore(orEmpty(scoreRun.detections),
                                                  scoreRun.imageWidth,
                                                  scoreRun.imageHeight, 1)]
  /\ UNCHANGED << dbVars, onnxVars, procs, calls, ui, nmsRun, decodeRun >>

\* getInterpretation(totalScore)
GetInterpretation ==
  /\ scoreRun.phase = "total"
  /\ scoreRun' = [scoreRun EXCEPT !.phase = "interpreted",
                                  !.interpretation = getInterpretation(scoreRun.totalScore)]
  /\ UNCHANGED << dbVars, onnxVars, procs, calls, ui, nmsRun, decodeRun >>

\* the totalScore of the rows that daprScores holds for other sketches
EarlierTotals == { <<>>, << 1 >>, << 1, -2 >> }

\* saveDAPRScore has stored the score (totalScore: scoreData.total_score)
\* and getDashboardData calls getScoreDistribution()
GetScoreDistribution ==
  /\ scoreRun.phase = "scored"
  /\ \E earlier \in EarlierTotals :
       LET allScores == Append(earlier, scoreRun.result.total_score)
       IN  scoreRun' = [scoreRun EXCEPT
                          !.phase = "distributed",
                          !.allScores = allScores,
                          !.distribution = getScoreDistribution(allScores)]
  /\ UNCHANGED << dbVars, onnxVars, procs, calls, ui, nmsRun, decodeRun >>

NextScore == CalculateDAPRScore \/ GetInterpretation \/ GetScoreDistribution

SpecScore == InitScore /\ [][NextScore]_vars

\* ------------------------------------------------------------------------
\* The views: SketchListView and the dashboard, as callers of the services
\* ------------------------------------------------------------------------

\* getDashboardData(sketchId): null without the sketch, the rejection of
\* getScoreDistribution, or the rows read.  The reads are taken in one step.
getDashboardData(sketchId) ==
  LET allScores == toArray(daprScores)
      totals == [k \in DOMAIN allScores |-> allScores[k].totalScore]
  IN  IF ~sketches[sketchId].exists THEN NoDashData
      ELSE IF getScoreDistribution(totals).threw
           THEN [NoDashData EXCEPT !.kind = "threw"]
      ELSE [ kind |-> "data",
             detections |-> toArray(rowsOf(detections, sketchId)),
             daprScore |-> getDAPRScore(daprScores, sketchId) ]

\* the computed filteredDetections
filteredDetections ==
  IF ui.dashData.kind # "data" THEN <<>>
  ELSE SelectSeq(ui.dashData.detections,
                 LAMBDA det : det.confidence >= ui.confidenceThreshold)

\* the values the tests move the confidence slider to (min 0.1, max 1.0,
\* step 0.05)
SliderValues == {300, 800}

\* the sketches the reviewer works on are 1 .. MaxViewed
MaxViewed == 1

\* the most detections a reviewer marks for removal before the marks are
\* cleared; with one mark the loop of saveCorrections has one pass, so a
\* saveCorrections left behind by a route change has no call left to make
MaxRemovals == 1

\* a caller that can take a new call: its last call has settled and the
\* handler that awaited it has run on
FreeCaller(p) == CanCall(p, 0) /\ ui.handler[p] = "none"

\* a handler calls a service and waits for it
Await(p, rec, handlerName, newUi) ==
  /\ procs' = [procs EXCEPT ![p] = rec]
  /\ calls' = calls + 1
  /\ ui' = [newUi EXCEPT !.handler[p] = handlerName]
  /\ UNCHANGED << dbVars, onnxVars, nmsRun, decodeRun, scoreRun >>

\* a step of a view that touches its refs only
Render(newUi) ==
  /\ ui' = newUi
  /\ UNCHANGED << dbVars, onnxVars, procs, calls, nmsRun, decodeRun, scoreRun >>

\* runAnalysis(sketchId) as the views call it: without options, so with
\* detectObjects' default useOnnx = true
runAnalysisCall(sid) ==
  [IdleProc EXCEPT !.op = "runAnalysis", !.pc = "getSketch", !.sid = sid,
                   !.useOnnx = TRUE]

\* the handlers of a view that is unmounted run on, on refs nothing shows
detached(handlers, names) ==
  [p \in Procs |-> IF handlers[p] \in names THEN "none" ELSE handlers[p]]

ListHandlers == {"handleAnalyze"}

DashboardHandlers == {"onMounted", "handleRunAnalysis", "saveCorrections"}

\* SketchListView handleAnalyze(sketchId), up to `await runAnalysis`; the
\* row's button is loading while analyzing === row.id
HandleAnalyze(p, sid) ==
  /\ ui.route = "list"
  /\ sketches[sid].exists
  /\ ui.listAnalyzing # sid
  /\ FreeCaller(p)
  /\ Await(p, runAnalysisCall(sid), "handleAnalyze",
           [ui EXCEPT !.listAnalyzing = sid])

\* handleAnalyze after its await: the message, loadSketches, and the finally
HandleAnalyzeSettled(p) ==
  /\ ui.handler[p] = "handleAnalyze"
  /\ procs[p].pc = "done"
  /\ Render([ui EXCEPT !.listAnalyzing = 0, !.handler[p] = "none"])

\* the row's dashboard button: $router.push(`/dashboard/${row.id}`); the
\* dashboard is set up and onMounted runs up to `await getDashboardData`
OpenDashboard(sid) ==
  /\ ui.route = "list"
  /\ Render([NoUi EXCEPT !.route = "dashboard", !.sketchId = sid,
                         !.handler = detached(ui.handler, ListHandlers)])

\* onMounted after `await getDashboardData`: the page is ready, or the
\* sketch has no score yet and runAnalysisPipeline(sketchId) is awaited
MountedLoad(p) ==
  LET data == getDashboardData(ui.sketchId)
      loaded == [ui EXCEPT !.dashData = IF data.kind = "threw" THEN NoDashData ELSE data]
  IN  /\ ui.route = "dashboard"
      /\ ui.loading
      /\ \A q \in Procs : ui.handler[q] # "onMounted"
      /\ IF data.kind = "data" /\ data.daprScore = NoValue
         THEN /\ FreeCaller(p)
              /\ Await(p, runAnalysisCall(ui.sketchId), "onMounted", loaded)
         ELSE /\ p = 1
              /\ Render([loaded EXCEPT !.loading = FALSE])

\* onMounted after `await runAnalysisPipeline`: getDashboardData again, or
\* the inner catch; then drawDetections and loading = false
MountedAnalysisSettled(p) ==
  LET data == getDashboardData(ui.sketchId)
  IN  /\ ui.handler[p] = "onMounted"
      /\ procs[p].pc = "done"
      /\ Render([ui EXCEPT
                   !.dashData = IF procs[p].outcome = "resolved" /\ data.kind # "threw"
                                THEN data ELSE @,
                   !.loading = FALSE,
                   !.handler[p] = "none"])

\* the 'run analysis' button of the empty score card: handleRunAnalysis up
\* to `await runAnalysisPipeline`
HandleRunAnalysis(p) ==
  /\ ui.route = "dashboard"
  /\ ~ui.loading
  /\ ui.dashData.kind = "data"
  /\ ui.dashData.daprScore = NoValue
  /\ ~ui.analyzing
  /\ FreeCaller(p)
  /\ Await(p, runAnalysisCall(ui.sketchId), "handleRunAnalysis",
           [ui EXCEPT !.analyzing = TRUE])

\* handleRunAnalysis after its await: refreshDashboard, or the catch; finally
HandleRunAnalysisSettled(p) ==
  LET data == getDashboardData(ui.sketchId)
  IN  /\ ui.handler[p] = "handleRunAnalysis"
      /\ procs[p].pc = "done"
      /\ Render([ui EXCEPT
                   !.dashData = IF procs[p].outcome = "resolved" /\ data.kind # "threw"
                                THEN data ELSE @,
                   !.analyzing = FALSE,
                   !.handler[p] = "none"])

\* the confidence slider: v-model="confidenceThreshold"
SetConfidenceThreshold(v) ==
  /\ ui.route = "dashboard"
  /\ ~ui.loading
  /\ ui.dashData.kind = "data"
  /\ v # ui.confidenceThreshold
  /\ Render([ui EXCEPT !.confidenceThreshold = v])

\* Set.prototype.delete and clear on removedIds
setDelete(entries, id) ==
  IF ui.savingCorrections
  THEN [k \in DOMAIN entries |-> IF entries[k] = id THEN 0 ELSE entries[k]]
  ELSE SelectSeq(entries, LAMBDA r : r # id)

setClear(entries) ==
  IF ui.savingCorrections THEN [k \in DOMAIN entries |-> 0] ELSE <<>>

\* removedIds.size
setSize(entries) == Cardinality(Range(entries) \ {0})

\* the entry the iterator yields after entry k: 0 when it is done
nextEntry(entries, k) ==
  LET later == { j \in DOMAIN entries : j > k /\ entries[j] # 0 }
  IN  IF later = {} THEN 0 ELSE CHOOSE j \in later : \A i \in later : j <= i

\* the edit switch: v-model="editMode", and its watcher
ToggleEditMode ==
  /\ ui.route = "dashboard"
  /\ ~ui.loading
  /\ ui.dashData.kind = "data"
  /\ Render([ui EXCEPT !.editMode = ~ui.editMode,
                       !.removedIds = IF ui.editMode THEN setClear(@) ELSE @])

\* markForRemoval(det.id), the button of a listed detection
MarkForRemoval(id) ==
  /\ ui.route = "dashboard"
  /\ ~ui.loading
  /\ ui.editMode
  /\ \E k \in DOMAIN filteredDetections : filteredDetections[k].id = id
  /\ id \notin Range(ui.removedIds)
  /\ Len(ui.removedIds) < MaxRemovals
  /\ Render([ui EXCEPT !.removedIds = Append(@, id)])

\* unmarkRemoval(det.id)
UnmarkRemoval(id) ==
  /\ ui.route = "dashboard"
  /\ ~ui.loading
  /\ ui.editMode
  /\ \E k \in DOMAIN filteredDetections : filteredDetections[k].id = id
  /\ id \in Range(ui.removedIds)
  /\ Render([ui EXCEPT !.removedIds = setDelete(@, id)])

\* cancelCorrections()
CancelCorrections ==
  /\ ui.route = "dashboard"
  /\ ~ui.loading
  /\ ui.editMode
  /\ setSize(ui.removedIds) > 0
  /\ Render([ui EXCEPT !.removedIds = setClear(@), !.editMode = FALSE])

\* removeDetection(sketchId, detectionId) as saveCorrections calls it
removeDetectionCall(sid, detId) ==
  [IdleProc EXCEPT !.op = "removeDetection", !.pc = "deleteDetection",
                   !.sid = sid, !.detId = detId]

\* saveCorrections up to its first `await removeDetectionService`
SaveCorrections(p) ==
  /\ ui.route = "dashboard"
  /\ ~ui.loading
  /\ ui.editMode
  /\ setSize(ui.removedIds) > 0
  /\ ~ui.savingCorrections
  /\ FreeCaller(p)
  /\ Await(p, removeDetectionCall(ui.sketchId, Head(ui.removedIds)), "saveCorrections",
           [ui EXCEPT !.savingCorrections = TRUE, !.cursor = 1])

\* saveCorrections after an `await removeDetectionService`: the catch, the
\* next marked detection, or the clearing of the marks and refreshDashboard;
\* the finally ends the iteration, and the entries deleted meanwhile go
SaveCorrectionsSettled(p) ==
  LET data == getDashboardData(ui.sketchId)
      next == nextEntry(ui.removedIds, ui.cursor)
  IN  /\ ui.handler[p] = "saveCorrections"
      /\ procs[p].pc = "done"
      /\ IF procs[p].outcome # "resolved"
         THEN Render([ui EXCEPT !.removedIds = SelectSeq(@, LAMBDA r : r # 0),
                                !.cursor = 0,
                                !.savingCorrections = FALSE, !.handler[p] = "none"])
         ELSE IF next = 0
         THEN Render([ui EXCEPT !.removedIds = <<>>, !.cursor = 0, !.editMode = FALSE,
                                !.dashData = IF data.kind # "threw" THEN data ELSE @,
                                !.savingCorrections = FALSE, !.handler[p] = "none"])
         ELSE /\ calls < MaxCalls
              /\ Await(p, removeDetectionCall(ui.sketchId, ui.removedIds[next]),
                       "saveCorrections", [ui EXCEPT !.cursor = next])

\* the dashboard's 'back to list' button: $router.push('/sketches'); a new
\* SketchListView is set up, its ref analyzing null
BackToList ==
  /\ ui.route = "dashboard"
  /\ ~ui.loading
  /\ Render([NoUi EXCEPT !.handler = detached(ui.handler, DashboardHandlers)])

\* the service calls the views make, each running to its next await
AdvanceViews ==
  \E p \in Procs :
    \/ GetSketchById(p)
    \/ DetectObjects(p)
    \/ ImportOrt(p)
    \/ CreateSession(p)
    \/ CreateSessionWasm(p)
    \/ RunSession(p)
    \/ SaveDetections(p)
    \/ GetDetections(p)
    \/ SaveScoreDelete(p)
    \/ SaveScoreAdd(p)
    \/ DeleteDetection(p)

NextViews ==
  \/ \E p \in Procs : \E sid \in 1 .. MaxViewed : HandleAnalyze(p, sid)
  \/ \E p \in Procs : HandleAnalyzeSettled(p)
  \/ \E sid \in 1 .. MaxViewed : OpenDashboard(sid)
  \/ \E p \in Procs : MountedLoad(p)
  \/ \E p \in Procs : MountedAnalysisSettled(p)
  \/ \E p \in Procs : HandleRunAnalysis(p)
  \/ \E p \in Procs : HandleRunAnalysisSettled(p)
  \/ \E v \in SliderValues : SetConfidenceThreshold(v)
  \/ ToggleEditMode
  \/ \E id \in DetectionIds : MarkForRemoval(id)
  \/ \E id \in DetectionIds : UnmarkRemoval(id)
  \/ CancelCorrections
  \/ \E p \in Procs : SaveCorrections(p)
  \/ \E p \in Procs : SaveCorrectionsSettled(p)
  \/ BackToList
  \/ AdvanceViews

\* the sketches of the list are drawings made in the app, none analysed yet
InitViews ==
  /\ sketches = [s \in SketchIds |-> [ exists |-> TRUE, imageDataUrl |-> "drawing",
                                       analyzed |-> FALSE ]]
  /\ InitStore
  /\ nmsRun = NoNmsRun
  /\ decodeRun = NoDecodeRun
  /\ scoreRun = NoScoreRun

SpecViews == InitViews /\ [][NextViews]_vars

\* ------------------------------------------------------------------------
\* Properties
\* ------------------------------------------------------------------------

\* the image a stored sketch shows
imageOf(s) == rasterOf(sketches[s].imageDataUrl)

\* the detections stored for sketch s, as getDetections returns them
storedDetections(s) == toArray(rowsOf(detections, s))

\* C1: in every reachable state the daprScores table holds at most one row
\* per sketchId, also when calls on the sketch interleave at their awaits.
C1_AtMostOneScorePerSketch ==
  \A s \in SketchIds : Cardinality(rowsOf(daprScores, s)) <= 1

\* C2: at every point where a reader can run, every score stored for a
\* sketch is the score of the detection set stored for the sketch at that
\* point (never new detections with the old score), and a sketch that a
\* completed runAnalysis has scored is not without a score.
C2_NoHalfUpdatedPair ==
  \A s \in SketchIds :
    sketches[s].exists =>
      /\ \A r \in rowsOf(daprScores, s) :
           scoreValueOf(r) = scoreOf(storedDetections(s), imageOf(s))
      /\ (\E p \in Procs : /\ procs[p].op = "runAnalysis" /\ procs[p].sid = s
                           /\ procs[p].pc = "done" /\ procs[p].outcome = "resolved")
           => rowsOf(daprScores, s) # {}

ScoringOps == {"runAnalysis", "recalculateScore", "removeDetection", "addManualDetection"}

\* caller p's scoring call resolves in this step
CompletesScoring(p) ==
  /\ procs[p].pc # "done"
  /\ procs'[p].pc = "done"
  /\ procs'[p].outcome = "resolved"
  /\ procs'[p].op \in ScoringOps

\* C3: when the calls are serialized per sketch, a scoring call that
\* completes leaves exactly one score for its sketch, equal to
\* calculateDAPRScore of the detections then persisted for the sketch and of
\* the sketch's image size; recalculateScore gets there without detection.
C3_ScoreReproducible ==
  [][\A p \in Procs :
       CompletesScoring(p) =>
         LET s == procs'[p].sid
             rows == rowsOf(daprScores', s)
         IN  /\ Cardinality(rows) = 1
             /\ \A r \in rows :
                  scoreValueOf(r) =
                    scoreOf(toArray(rowsOf(detections', s)),
                            rasterOf(sketches'[s].imageDataUrl))
             /\ procs'[p].op # "runAnalysis" => procs'[p].origin = "none"]_vars

\* caller p's saveDetections transaction commits in this step
SavesDetections(p) == procs[p].pc = "saveDetections" /\ procs'[p].pc = "scoreDelete"

\* the record saveDetections builds from a detection
recordOf(d) ==
  [ category |-> d.category, bbox |-> d.bbox, confidence |-> d.confidence,
    classId |-> d.class_id ]

\* C4: saveDetections(sketchId, D) leaves exactly the records of D for the
\* sketch, none of the earlier rows, the sketch (if it exists) analyzed, and
\* the rows of the other sketches as they were; and no state shows a sketch
\* with rows of an analysis that is not marked analyzed.
C4_SaveDetectionsAtomic ==
  /\ [](\A s \in SketchIds :
          (sketches[s].exists /\ \E r \in rowsOf(detections, s) : r.origin # "manual")
            => sketches[s].analyzed)
  /\ [][\A p \in Procs :
          SavesDetections(p) =>
            LET s == procs[p].sid
                D == procs[p].dets
                rows == toArray(rowsOf(detections', s))
            IN  /\ Len(rows) = Len(D)
                /\ \A i \in DOMAIN D : valueOf(rows[i]) = recordOf(D[i])
                /\ rowsOf(detections', s) \cap detections = {}
                /\ sketches[s].exists => sketches'[s].analyzed
                /\ \A t \in SketchIds \ {s} :
                     /\ rowsOf(detections', t) = rowsOf(detections, t)
                     /\ sketches'[t] = sketches[t]]_vars

\* caller p's saveDetections has just replaced the rows that an earlier
\* analysis of the same sketch, by caller q, had saved
C4_Witness ==
  \E p, q \in Procs :
    /\ p # q
    /\ procs[p].op = "runAnalysis" /\ procs[p].pc = "scoreDelete"
    /\ procs[p].dets # <<>>
    /\ procs[q].op = "runAnalysis" /\ procs[q].sid = procs[p].sid
    /\ procs[q].pc = "done" /\ procs[q].outcome = "resolved"
    /\ procs[q].dets # <<>>
    /\ { r.id : r \in rowsOf(detections, procs[p].sid) }
         = (nextDetId - Len(procs[p].dets)) .. (nextDetId - 1)

\* C5: when ONNX inference is requested and fails (the import, the session
\* creation or session.run rejects, or the output tensor is malformed), the
\* detections the call goes on with are placeholder detections.
C5_InferenceFailureGivesPlaceholder ==
  \A p \in Procs :
    (procs[p].op = "runAnalysis" /\ procs[p].useOnnx /\ procs[p].failed) =>
      /\ procs[p].origin = "placeholder"
      /\ procs[p].pc = "done" => (procs[p].outcome = "resolved" /\ procs[p].wrote)

\* C6: whether a persisted detection came from the model or from the
\* placeholder generator can be told from its value: no two rows with the
\* same stored fields have different origins.
C6_OriginToldByValue ==
  \A r1, r2 \in detections : valueOf(r1) = valueOf(r2) => r1.origin = r2.origin

\* C7: runAnalysis on a sketch whose image has zero width or height, or does
\* not load, rejects without detections, persists nothing, saves no score
\* and does not mark the sketch analyzed.
C7_MalformedRasterFatal ==
  /\ \A p \in Procs :
       ( /\ procs[p].op = "runAnalysis"
         /\ procs[p].found
         /\ procs[p].url \in {"empty", "broken"} ) =>
           \/ procs[p].pc = "detect"
           \/ /\ procs[p].pc = "done"
              /\ procs[p].outcome = "rejected"
              /\ ~procs[p].wrote
  /\ \A s \in SketchIds :
       (sketches[s].exists /\ sketches[s].imageDataUrl \in {"empty", "broken"}) =>
         /\ ~sketches[s].analyzed
         /\ \A r \in rowsOf(detections, s) : r.origin = "manual"

RescoreOps == {"recalculateScore", "removeDetection", "addManualDetection"}

\* a score record with every item of both tables and consistent totals
validScore(score) ==
  /\ Len(score.stress_items) = Len(STRESS_ITEMS)
  /\ Len(score.resource_items) = Len(RESOURCE_ITEMS)
  /\ score.stress_score = SumSeq([i \in DOMAIN score.stress_items |->
                                    score.stress_items[i].score])
  /\ score.resource_score = SumSeq([i \in DOMAIN score.resource_items |->
                                      score.resource_items[i].score])
  /\ score.total_score = score.resource_score - score.stress_score
  /\ score.interpretation = getInterpretation(score.total_score)

\* C8: a settled recalculateScore, removeDetection or addManualDetection call
\* has rejected and saved no score if its sketch was missing or its image
\* did not load; otherwise it has resolved and saved a valid score, also
\* when the sketch's detection set was empty.
C8_RescoreFailsOnlyWithoutSketch ==
  \A p \in Procs :
    (procs[p].op \in RescoreOps /\ procs[p].pc = "done") =>
      IF procs[p].found /\ procs[p].url \in {"drawing", "empty"}
      THEN /\ procs[p].outcome = "resolved"
           /\ procs[p].wrote
           /\ validScore(procs[p].score)
           /\ procs[p].score = scoreOf(procs[p].dets, rasterOf(procs[p].url))
      ELSE /\ procs[p].outcome = "rejected"
           /\ ~procs[p].wrote

\* one rescoring call has rejected on a missing sketch, another has resolved
\* on a sketch without detections
C8_Witness ==
  \E p, q \in Procs :
    /\ procs[p].op \in RescoreOps /\ procs[p].pc = "done"
    /\ ~procs[p].found /\ procs[p].outcome = "rejected"
    /\ procs[q].op \in RescoreOps /\ procs[q].pc = "done"
    /\ procs[q].outcome = "resolved" /\ procs[q].dets = <<>>
    /\ rowsOf(daprScores, procs[q].sid) # {}

\* the indices (ascending) of the candidates of class c
RECURSIVE indicesOfClass(_, _, _)
indicesOfClass(classIds, c, k) ==
  IF k > Len(classIds) THEN <<>>
  ELSE (IF classIds[k] = c THEN << k >> ELSE <<>>) \o indicesOfClass(classIds, c, k + 1)

\* the candidates of class c that a run kept
keptOfClass(keep, c) == Range(SelectSeq(keep, LAMBDA i : nmsRun.classIds[i] = c))

\* the candidates of class c that nms keeps when it is given them alone
keptAlone(c) ==
  LET idx == indicesOfClass(nmsRun.classIds, c, 1)
  IN  Range(pick(idx, nms(pick(nmsRun.boxes, idx), pick(nmsRun.scores, idx),
                          nmsRun.iouThreshold, pick(nmsRun.classIds, idx))))

\* the same for the nms of the other detection.js
keptAloneLegacy(c) ==
  LET idx == indicesOfClass(nmsRun.classIds, c, 1)
  IN  Range(pick(idx, nmsLegacy(pick(nmsRun.boxes, idx), pick(nmsRun.scores, idx),
                                nmsRun.iouThreshold)))

\* C9, for the nms of the current detection.js: candidates of different
\* classes never suppress each other: for every class, the kept candidates
\* of the class are those that nms keeps of the class's candidates alone.
C9_PerClassIsolation ==
  nmsRun.phase \in {"kept", "again"} =>
    \A c \in NmsClassIds : keptOfClass(nmsRun.keep, c) = keptAlone(c)

\* C9, for the nms of the other detection.js: candidates of different
\* classes never suppress each other: for every class, the kept candidates
\* of the class are those that this nms keeps of the class's candidates alone.
C9_PerClassIsolationLegacy ==
  nmsRun.phase \in {"kept", "again"} =>
    \A c \in NmsClassIds : keptOfClass(nmsRun.legacyKeep, c) = keptAloneLegacy(c)

\* C10: nms applied to the candidates it kept (same scores, classes and
\* threshold) keeps every one of them.
C10_NmsIdempotent ==
  nmsRun.phase = "again" =>
    { nmsRun.keep[k] : k \in Range(nmsRun.again) } = Range(nmsRun.keep)

\* a run that suppressed a candidate and kept two has been applied again
C10_Witness ==
  /\ nmsRun.phase = "again"
  /\ Len(nmsRun.keep) >= 2
  /\ Len(nmsRun.keep) < Len(nmsRun.boxes)

\* the position of candidate i in the order nms walks (descending score,
\* input order among equal scores)
rankOf(i) ==
  LET order == sortByScore(nmsRun.scores)
  IN  CHOOSE k \in DOMAIN order : order[k] = i

\* the IoU of candidates i and j, as a fraction
iouOf(i, j) == calculateIoU(nmsRun.boxes[i], nmsRun.boxes[j])

\* C12: a candidate is suppressed only by a kept box of its class that ranks
\* before it and whose IoU with it is strictly greater than iouThreshold; a
\* lower-ranked candidate whose IoU with a kept box is exactly the threshold
\* is not suppressed by that box.
C12_SuppressedOnlyAboveThreshold ==
  nmsRun.phase \in {"kept", "again"} =>
    \A j \in DOMAIN nmsRun.boxes :
      (j \notin Range(nmsRun.keep)) <=>
        \E i \in Range(nmsRun.keep) :
          /\ rankOf(i) < rankOf(j)
          /\ nmsRun.classIds[i] = nmsRun.classIds[j]
          /\ iouOf(i, j)[1] * nmsRun.iouThreshold[2]
               > nmsRun.iouThreshold[1] * iouOf(i, j)[2]

\* nms has kept two boxes of one class whose IoU is exactly the threshold
C12_Witness ==
  /\ nmsRun.phase = "kept"
  /\ \E i, j \in Range(nmsRun.keep) :
       /\ rankOf(i) < rankOf(j)
       /\ nmsRun.classIds[i] = nmsRun.classIds[j]
       /\ iouOf(i, j)[1] * nmsRun.iouThreshold[2]
            = nmsRun.iouThreshold[1] * iouOf(i, j)[2]

\* C20: InferenceSession.create succeeds at most once in the life of the
\* process, whatever the interleaving of warmupModel and detectObjects calls.
C20_SessionCreatedOnce == sessionsCreated <= 1

\* the predictions of the decoded tensor, by their 0-based position
predictionsOf(run) == 0 .. numPredictionsOf(run.outputTensor) - 1

\* <<maxScore, maxClassId>> of prediction i of the decoded tensor
topOf(run, i) ==
  scanClasses(run.outputTensor.data, numPredictionsOf(run.outputTensor),
              numClassesOf(run.outputTensor), i, 0, << 0, 0 >>)

\* prediction i's top score is exactly its effective confidence threshold
atThreshold(run, i) ==
  topOf(run, i)[1] = classThresholdOf(topOf(run, i)[2], run.confidenceThreshold)

\* the box of prediction i in image space, unrounded
boxOf(run, i) ==
  LET d == run.outputTensor.data
      n == numPredictionsOf(run.outputTensor)
      cx == tensorAt(d, n, 0, i)
      cy == tensorAt(d, n, 1, i)
      w == tensorAt(d, n, 2, i)
      h == tensorAt(d, n, 3, i)
  IN  << toOriginal(2 * cx - w, run.letterbox.padX),
         toOriginal(2 * cy - h, run.letterbox.padY),
         toOriginal(2 * cx + w, run.letterbox.padX),
         toOriginal(2 * cy + h, run.letterbox.padY) >>

\* detection d is what postprocessOutput returns for prediction i
stemsFrom(run, d, i) ==
  /\ d.class_id = topOf(run, i)[2]
  /\ d.confidence = roundConfidence(topOf(run, i)[1])
  /\ d.bbox = [c \in 1 .. 4 |-> roundCoord(boxOf(run, i)[c], run.letterbox.scale)]

\* C11, as the spec states it: a prediction whose top class score is exactly
\* its effective confidence threshold never appears among the returned
\* detections.
C11_EqualScoreDiscarded ==
  decodeRun.phase \in {"decoded", "inverted"} =>
    \A i \in predictionsOf(decodeRun) :
      atThreshold(decodeRun, i) =>
        \A k \in DOMAIN decodeRun.dets : ~stemsFrom(decodeRun, decodeRun.dets[k], i)

\* C11, as the code has it: a prediction whose top class score is exactly
\* its effective confidence threshold passes the threshold test and becomes a
\* candidate (the test discards only scores strictly below the threshold),
\* and predictions below their threshold do not.
C11_EqualScoreKept ==
  decodeRun.phase \in {"decoded", "inverted"} =>
    \A i \in predictionsOf(decodeRun) :
      LET top == topOf(decodeRun, i)
          passes == top[1] >= classThresholdOf(top[2], decodeRun.confidenceThreshold)
      IN  passes <=>
            \E k \in DOMAIN decodeRun.cands :
              /\ decodeRun.cands[k].score = top[1]
              /\ decodeRun.cands[k].classId = top[2]
              /\ decodeRun.cands[k].box = boxOf(decodeRun, i)

\* a prediction at exactly its threshold has been returned as a detection
C11_Witness ==
  /\ decodeRun.phase = "decoded"
  /\ \E i \in predictionsOf(decodeRun) :
       /\ atThreshold(decodeRun, i)
       /\ \E k \in DOMAIN decodeRun.dets : stemsFrom(decodeRun, decodeRun.dets[k], i)

\* C19: for every positive image size, padX >= 0, padY >= 0, the scaled
\* image fits in the canvas (padX + newW <= S, padY + newH <= S), and the
\* decoder's inverse mapping takes the corners of the drawn region to (0, 0)
\* and to (W, H) within the rounding of newW and newH: half a model pixel,
\* that is 1 / (2 scale) image pixels.
C19_LetterboxRoundTrip ==
  LET lb == decodeRun.letterbox
      S == MODEL_INPUT_SIZE
      m == lb.scale[2]
  IN  /\ decodeRun.phase \in {"letterboxed", "decoded", "inverted"} =>
           /\ lb.scale = << S, Max(decodeRun.width, decodeRun.height) >>
           /\ lb.padX >= 0 /\ lb.padY >= 0
           /\ lb.newW >= 0 /\ lb.newH >= 0
           /\ lb.padX + lb.newW <= S
           /\ lb.padY + lb.newH <= S
      /\ decodeRun.phase = "inverted" =>
           /\ decodeRun.region[1] = 0
           /\ decodeRun.region[2] = 0
           /\ decodeRun.region[3] * m - 2 * S * decodeRun.width <= m
           /\ 2 * S * decodeRun.width - decodeRun.region[3] * m <= m
           /\ decodeRun.region[4] * m - 2 * S * decodeRun.height <= m
           /\ 2 * S * decodeRun.height - decodeRun.region[4] * m <= m

\* the corners of a padded, downscaled, odd-sized image have been inverted
C19_Witness ==
  /\ decodeRun.phase = "inverted"
  /\ decodeRun.width = 1300 /\ decodeRun.height = 641
  /\ decodeRun.letterbox.padY > 0
  /\ decodeRun.region[4] * decodeRun.letterbox.scale[2]
       # 2 * MODEL_INPUT_SIZE * decodeRun.height

\* the score of the item called name in an item array
itemScore(items, name) ==
  LET i == CHOOSE k \in DOMAIN items : items[k].name = name
  IN  items[i].score

\* the names of the items of an item array that scored 1
triggeredIn(items) == { items[k].name : k \in { j \in DOMAIN items : items[j].score = 1 } }

\* the list calculateDAPRScore scored
scoredObjects == orEmpty(scoreRun.detections)

\* C13: for any detection set (the empty list, null or undefined, records
\* without their box numbers included) calculateDAPRScore returns a score
\* whose stress item array has exactly 16 entries and whose resource item
\* array has exactly 19, with the names in the order of the tables, and each
\* item score 0 or 1.
C13_ScoreTableComplete ==
  scoreRun.phase = "scored" =>
    LET r == scoreRun.result
    IN  /\ DOMAIN r.stress_items = 1 .. 16
        /\ DOMAIN r.resource_items = 1 .. 19
        /\ \A i \in DOMAIN r.stress_items :
             /\ r.stress_items[i].name = STRESS_ITEMS[i].name
             /\ r.stress_items[i].category = "stress"
             /\ r.stress_items[i].score \in {0, 1}
        /\ \A i \in DOMAIN r.resource_items :
             /\ r.resource_items[i].name = RESOURCE_ITEMS[i].name
             /\ r.resource_items[i].category = "resource"
             /\ r.resource_items[i].score \in {0, 1}

\* a list with a record without its box numbers has been scored, and some
\* rules triggered on it
C13_Witness ==
  /\ scoreRun.phase = "scored"
  /\ \E k \in DOMAIN scoredObjects : ~hasBox(scoredObjects[k])
  /\ triggeredIn(scoreRun.result.stress_items) # {}
  /\ triggeredIn(scoreRun.result.resource_items) # {}

\* C14: stress_score is the sum of the scores of the returned stress items,
\* resource_score the sum of the scores of the returned resource items, and
\* total_score = resource_score - stress_score.
C14_ScoreArithmetic ==
  scoreRun.phase = "scored" =>
    LET r == scoreRun.result
    IN  /\ r.stress_score = SumSeq([i \in DOMAIN r.stress_items |-> r.stress_items[i].score])
        /\ r.resource_score =
             SumSeq([i \in DOMAIN r.resource_items |-> r.resource_items[i].score])
        /\ r.total_score = r.resource_score - r.stress_score

\* a list on which two rain drops hit the person has been scored
C14_Witness ==
  /\ scoreRun.phase = "scored"
  /\ "rain_hitting_person" \in triggeredIn(scoreRun.result.stress_items)
  /\ \E i, j \in DOMAIN scoredObjects :
       /\ i # j
       /\ scoredObjects[i].category = "rain" /\ scoredObjects[j].category = "rain"
       /\ \E k \in DOMAIN scoredObjects :
            /\ scoredObjects[k].category = "person"
            /\ checkOverlap(scoredObjects[k], scoredObjects[i])
            /\ checkOverlap(scoredObjects[k], scoredObjects[j])
  /\ scoreRun.result.resource_score >= 2

\* C15: getInterpretation returns the 'adequate resources' text iff
\* total >= 4, 'slightly more resources' iff 1 <= total < 4, 'roughly
\* balanced' iff -1 <= total < 1, 'slightly more stress' iff -4 <= total < -1,
\* and the 'significantly more stress' text iff total < -4.
C15_InterpretationBands ==
  scoreRun.phase = "interpreted" =>
    LET t == scoreRun.totalScore
        text == scoreRun.interpretation
    IN  /\ (text = "Adequate resources, good coping ability") <=> (t >= 4)
        /\ (text = "Slightly more resources than stress") <=> (1 <= t /\ t < 4)
        /\ (text = "Stress and resources roughly balanced") <=> (-1 <= t /\ t < 1)
        /\ (text = "Slightly more stress than resources") <=> (-4 <= t /\ t < -1)
        /\ (text = "Significantly more stress, further assessment recommended")
             <=> (t < -4)

\* the total -4, the lower end of a band, has been interpreted
C15_Witness ==
  /\ scoreRun.phase = "interpreted"
  /\ scoreRun.totalScore = -4
  /\ scoreRun.interpretation = "Slightly more stress than resources"

\* an empty detection set has been scored for a positive image size
emptyScored ==
  /\ scoreRun.phase = "scored"
  /\ scoredObjects = <<>>
  /\ scoreRun.imageWidth > 0 /\ scoreRun.imageHeight > 0

\* C16, as the spec states it: scoring an empty detection set triggers
\* no_person and no_rain, gives a deeply negative total (below -4) and the
\* lowest interpretation band.
C16_EmptySketchLowestBand ==
  emptyScored =>
    /\ {"no_person", "no_rain"} \subseteq triggeredIn(scoreRun.result.stress_items)
    /\ scoreRun.result.total_score < -4
    /\ scoreRun.result.interpretation
         = "Significantly more stress, further assessment recommended"

\* C16, as the code has it: scoring an empty detection set triggers exactly
\* no_person and no_rain and no resource item, so the total is -2 and the
\* interpretation is the 'slightly more stress than resources' band.
C16_EmptySketchScore ==
  emptyScored =>
    /\ triggeredIn(scoreRun.result.stress_items) = {"no_person", "no_rain"}
    /\ triggeredIn(scoreRun.result.resource_items) = {}
    /\ scoreRun.result.stress_score = 2
    /\ scoreRun.result.resource_score = 0
    /\ scoreRun.result.total_score = -2
    /\ scoreRun.result.interpretation = "Slightly more stress than resources"

\* the empty list has been scored for a 400 x 600 image
C16_Witness ==
  /\ emptyScored
  /\ scoreRun.detections = {<<>>}
  /\ scoreRun.imageWidth = 400 /\ scoreRun.imageHeight = 600
  /\ scoreRun.result.total_score = -2

\* the exposed-person scenario has been scored
exposedScored ==
  /\ scoreRun.phase = "scored"
  /\ scoreRun.detections \subseteq ExposedPerson
  /\ scoreRun.detections # {}
  /\ scoreRun.imageWidth = 400 /\ scoreRun.imageHeight = 600

\* C17, as the spec states it: in the exposed-person scenario excess_rain and
\* body_exposed score 1 and no_rain 0, stress_score >= 2, the total is
\* negative and the interpretation is 'slightly more stress' or lower.
C17_ExposedPersonNegative ==
  exposedScored =>
    LET r == scoreRun.result
    IN  /\ {"excess_rain", "body_exposed"} \subseteq triggeredIn(r.stress_items)
        /\ "no_rain" \notin triggeredIn(r.stress_items)
        /\ r.stress_score >= 2
        /\ r.total_score < 0
        /\ r.interpretation \in
             { "Slightly more stress than resources",
               "Significantly more stress, further assessment recommended" }

\* C17, as the code has it: in the exposed-person scenario exactly
\* excess_rain and body_exposed trigger (stress 2), and exactly
\* complete_person and figure_appropriate_size (the figure is 200 px, 2.08
\* inches, high) trigger (resource 2), so the total is 0 and the
\* interpretation is the 'roughly balanced' band.
C17_ExposedPersonBalanced ==
  exposedScored =>
    LET r == scoreRun.result
    IN  /\ triggeredIn(r.stress_items) = {"excess_rain", "body_exposed"}
        /\ triggeredIn(r.resource_items) = {"complete_person", "figure_appropriate_size"}
        /\ r.stress_score = 2
        /\ r.resource_score = 2
        /\ r.total_score = 0
        /\ r.interpretation = "Stress and resources roughly balanced"

\* the scenario has been scored with its six rain drops and no umbrella
C17_Witness ==
  /\ exposedScored
  /\ countByCategory(scoredObjects, "rain") = 6
  /\ countByCategory(scoredObjects, "umbrella") = 0
  /\ itemScore(scoreRun.result.stress_items, "excess_rain") = 1

\* twice the middle (x + width / 2, y + height / 2) of a box
middleOf(det) == << 2 * det.bbox_x + det.bbox_w, 2 * det.bbox_y + det.bbox_h >>

\* C18: the rules that use a box center use the middle of the box,
\* (x + width / 2, y + height / 2): centered_figure scores 1 exactly when the
\* middle of the main person is nearer to the image center than a quarter of
\* the smaller image side, and umbrella_covers scores 1 exactly when an
\* umbrella overlaps a person and its middle is above the person's.
C18_CenterIsBoxMiddle ==
  scoreRun.phase = "scored" =>
    LET persons == getObjectsByCategory(scoredObjects, "person")
        umbrellas == getObjectsByCategory(scoredObjects, "umbrella")
        W == scoreRun.imageWidth
        H == scoreRun.imageHeight
        m == Min(W, H)
    IN  /\ (itemScore(scoreRun.result.resource_items, "centered_figure") = 1) <=>
             /\ Len(persons) > 0 /\ W > 0 /\ H > 0
             /\ hasBox(mainPersonOf(persons))
             /\ LET c == middleOf(mainPersonOf(persons))
                IN  4 * ((c[1] - W) * (c[1] - W) + (c[2] - H) * (c[2] - H)) < m * m
        /\ (itemScore(scoreRun.result.resource_items, "umbrella_covers") = 1) <=>
             \E p \in DOMAIN persons : \E u \in DOMAIN umbrellas :
               /\ checkOverlap(umbrellas[u], persons[p])
               /\ middleOf(umbrellas[u])[2] < middleOf(persons[p])[2]

\* C22: the nms of the other detection.js (every candidate scanned, guard
\* `j <= i`) and the nms of the current one without class ids (only the later
\* positions of the sorted order scanned) keep the same set of indices, for
\* every candidate list and every threshold.
C22_RevisionsEquivalent ==
  nmsRun.phase \in {"kept", "again"} =>
    Range(nmsRun.legacyKeep) = Range(nmsRun.agnosticKeep)

\* candidate i exceeds the threshold with candidate j
overlaps(i, j) == FracGreater(iouOf(i, j), nmsRun.iouThreshold)

\* C23: the kept set has no two boxes of one class whose IoU exceeds
\* iouThreshold, has the highest-scoring candidate of each class (the first
\* in input order among equal scores), and every candidate that is not kept
\* has IoU > iouThreshold with a kept candidate of its class that precedes it
\* in the score-descending order.
C23_GreedyNmsOutput ==
  nmsRun.phase \in {"kept", "again"} =>
    LET kept == Range(nmsRun.keep)
        all == DOMAIN nmsRun.boxes
    IN  /\ kept \subseteq all
        /\ \A i, j \in kept :
             (i # j /\ nmsRun.classIds[i] = nmsRun.classIds[j]) => ~overlaps(i, j)
        /\ \A i \in all :
             (\A j \in all : nmsRun.classIds[j] = nmsRun.classIds[i] =>
                               \/ nmsRun.scores[j] < nmsRun.scores[i]
                               \/ (nmsRun.scores[j] = nmsRun.scores[i] /\ i <= j))
               => i \in kept
        /\ \A j \in all \ kept :
             \E i \in kept : /\ nmsRun.classIds[i] = nmsRun.classIds[j]
                             /\ rankOf(i) < rankOf(j)
                             /\ overlaps(i, j)

\* nms has suppressed the first candidate of the input, for a later
\* candidate of its class with a higher score, and has kept a candidate of
\* another class
C23_Witness ==
  /\ nmsRun.phase = "kept"
  /\ 1 \notin Range(nmsRun.keep)
  /\ \E i \in Range(nmsRun.keep) :
       /\ nmsRun.classIds[i] = nmsRun.classIds[1]
       /\ nmsRun.scores[i] > nmsRun.scores[1]
       /\ overlaps(i, 1)
  /\ \E i \in Range(nmsRun.keep) : nmsRun.classIds[i] # nmsRun.classIds[1]

\* the class scores of prediction i, by class id
classScoresOf(run, i) ==
  [c \in 0 .. numClassesOf(run.outputTensor) - 1 |->
     tensorAt(run.outputTensor.data, numPredictionsOf(run.outputTensor), 4 + c, i)]

\* the largest class score of prediction i
largestScoreOf(run, i) ==
  LET cs == classScoresOf(run, i)
  IN  CHOOSE m \in Range(cs) : \A c \in DOMAIN cs : cs[c] <= m

\* the lowest class id that has the largest class score
lowestTopClassOf(run, i) ==
  LET cs == classScoresOf(run, i)
      tops == { c \in DOMAIN cs : cs[c] = largestScoreOf(run, i) }
  IN  CHOOSE c \in tops : \A d \in tops : c <= d

\* the predictions that reach their effective threshold: the per-class
\* threshold of the top class when it is one of the six, the caller's
\* confidenceThreshold otherwise
reachingThreshold(run) ==
  { i \in predictionsOf(run) :
      LET c == lowestTopClassOf(run, i)
          t == IF c \in 0 .. 5 THEN CLASS_CONFIDENCE[CLASS_NAMES[c + 1]]
               ELSE run.confidenceThreshold
      IN  largestScoreOf(run, i) >= t }

\* C25: the decoder takes as top class of a prediction the lowest class id
\* among those with the largest score, and lets the prediction through
\* exactly when that score reaches the per-class threshold of the top class
\* (one of the six configured classes) or, for a class id outside the table,
\* the caller-supplied confidenceThreshold.
C25_EffectiveThreshold ==
  decodeRun.phase \in {"decoded", "inverted"} =>
    /\ Len(decodeRun.cands) = Cardinality(reachingThreshold(decodeRun))
    /\ \A i \in predictionsOf(decodeRun) :
         (i \in reachingThreshold(decodeRun)) <=>
           \E k \in DOMAIN decodeRun.cands :
             /\ decodeRun.cands[k].score = largestScoreOf(decodeRun, i)
             /\ decodeRun.cands[k].classId = lowestTopClassOf(decodeRun, i)
             /\ decodeRun.cands[k].box = boxOf(decodeRun, i)

\* with the caller's threshold at 0.25, a prediction whose person and
\* seventh-class scores are both 0.4 has been discarded and one of the
\* seventh class at 0.25 let through
C25_Witness ==
  /\ decodeRun.phase = "decoded"
  /\ decodeRun.confidenceThreshold = 2500
  /\ \E i, j \in predictionsOf(decodeRun) :
       /\ classScoresOf(decodeRun, i)[2] = 4000
       /\ classScoresOf(decodeRun, i)[6] = 4000
       /\ i \notin reachingThreshold(decodeRun)
       /\ lowestTopClassOf(decodeRun, j) = 6
       /\ \E k \in DOMAIN decodeRun.cands : decodeRun.cands[k].classId = 6

\* C26, for every tensor: every detection that detectObjects returns on the
\* ONNX path has a category of the six-class vocabulary that is
\* CLASS_NAMES[class_id], a box with x1 < x2 and y1 < y2 and an area of at
\* least 400 px^2, and a confidence in [0, 1].
C26_DetectionWellFormed ==
  decodeRun.phase = "filtered" =>
    \A k \in DOMAIN decodeRun.returned :
      LET d == decodeRun.returned[k]
      IN  /\ d.class_id \in 0 .. Len(CLASS_NAMES) - 1
          /\ d.category \in Range(CLASS_NAMES)
          /\ d.category = classNameOf(d.class_id)
          /\ d.bbox[1] < d.bbox[3]
          /\ d.bbox[2] < d.bbox[4]
          /\ (d.bbox[3] - d.bbox[1]) * (d.bbox[4] - d.bbox[2])
               >= MIN_DETECTION_AREA * CentiPx * CentiPx
          /\ 0 <= d.confidence /\ d.confidence <= 1000

\* What does hold of the returned detections whatever the tensor: the box
\* is upright with an area of at least 400 px^2 (a box decoded from a
\* negative width and height passes the area filter and is dropped by
\* filterByContent), and the category is the class name of the class id.
ReturnedBoxesUpright ==
  decodeRun.phase = "filtered" =>
    \A k \in DOMAIN decodeRun.returned :
      LET d == decodeRun.returned[k]
      IN  /\ d.category = classNameOf(d.class_id)
          /\ d.bbox[1] < d.bbox[3]
          /\ d.bbox[2] < d.bbox[4]
          /\ (d.bbox[3] - d.bbox[1]) * (d.bbox[4] - d.bbox[2])
               >= MIN_DETECTION_AREA * CentiPx * CentiPx

\* the area of the unrounded box of prediction i reaches 400 px^2; the box
\* is in units of 1 / (2 scale) px, scale = S / m
unroundedLargeEnough(run, i) ==
  LET b == boxOf(run, i)
      m == run.letterbox.scale[2]
      S == run.letterbox.scale[1]
      floor == 0 - ((0 - MIN_DETECTION_AREA * 4 * S * S) \div (m * m))
  IN  (b[3] - b[1]) * (b[4] - b[2]) >= floor

\* C24: the coordinates are rounded only after the minimum-area filter and
\* the ink filter have been evaluated, so that the filters see the unrounded
\* box: every returned detection stems from a prediction whose unrounded box
\* has an area of at least 400 px^2.
C24_FiltersSeeUnroundedBox ==
  decodeRun.phase = "filtered" =>
    \A k \in DOMAIN decodeRun.returned :
      \E i \in predictionsOf(decodeRun) :
        /\ stemsFrom(decodeRun, decodeRun.returned[k], i)
        /\ unroundedLargeEnough(decodeRun, i)

\* C29: in every reachable state, whatever the interleaving of deleteSketch
\* with the analysis calls, every row of detections and every row of
\* daprScores refers to a sketch that exists.
C29_RowsReferToSketch ==
  /\ \A r \in detections : sketches[r.sketchId].exists
  /\ \A r \in daprScores : sketches[r.sketchId].exists

\* a runAnalysis has resolved for a sketch that was deleted while the
\* analysis was in flight, and has left its rows behind
AnalysisOutlivesSketch ==
  \E p \in Procs :
    /\ procs[p].op = "runAnalysis" /\ procs[p].pc = "done"
    /\ procs[p].outcome = "resolved" /\ procs[p].found
    /\ ~sketches[procs[p].sid].exists
    /\ rowsOf(detections, procs[p].sid) # {}
    /\ rowsOf(daprScores, procs[p].sid) # {}

\* caller p's removeDetection takes this step
RemoveDetectionSteps(p) ==
  /\ procs[p].op = "removeDetection"
  /\ procs[p].pc \notin {"idle", "done"}
  /\ procs'[p] # procs[p]

\* C30: a step of removeDetection(sketchId, detectionId) leaves the
\* detections and the score of every other sketch as they were, whatever
\* the detectionId, and a removeDetection on a sketch that has no row (the
\* call will reject) leaves the detections table as it was.
C30_RemoveDetectionFrame ==
  [][\A p \in Procs :
       RemoveDetectionSteps(p) =>
         /\ \A t \in SketchIds \ {procs[p].sid} :
              /\ rowsOf(detections', t) = rowsOf(detections, t)
              /\ rowsOf(daprScores', t) = rowsOf(daprScores, t)
         /\ ~sketches[procs[p].sid].exists => detections' = detections]_vars

\* C28: for every set of stored scores, negative totals included,
\* getScoreDistribution returns without error ten buckets whose counts sum
\* to the number of stored scores.
C28_HistogramTotal ==
  scoreRun.phase = "distributed" =>
    /\ ~scoreRun.distribution.threw
    /\ Len(scoreRun.distribution.counts) = 10
    /\ SumSeq(scoreRun.distribution.counts) = Len(scoreRun.allScores)

\* What does hold: when no stored total is negative, the ten counts sum to
\* the number of stored scores.
HistogramOfNonNegativeTotals ==
  (/\ scoreRun.phase = "distributed"
   /\ \A k \in DOMAIN scoreRun.allScores : scoreRun.allScores[k] >= 0) =>
    /\ ~scoreRun.distribution.threw
    /\ Len(scoreRun.distribution.counts) = 10
    /\ SumSeq(scoreRun.distribution.counts) = Len(scoreRun.allScores)

\* a pipeline run (runAnalysis, or the rescore of removeDetection or
\* recalculateScore) is in flight in caller p
PipelineInFlight(p) ==
  /\ procs[p].op \in {"runAnalysis", "removeDetection", "recalculateScore"}
  /\ procs[p].pc \notin {"idle", "done"}

\* C21: the views never have two pipeline runs in flight for one sketch: no
\* runAnalysis or removeDetection is started for a sketch while a
\* runAnalysis or a rescore of the same sketch has not completed.
C21_OneRunPerSketch ==
  \A p, q \in Procs :
    (p # q /\ PipelineInFlight(p) /\ PipelineInFlight(q)) => procs[p].sid # procs[q].sid

\* C27: in every dashboard state that shows a score, the detections listed
\* and drawn (filteredDetections) are the detections read with the score,
\* the persisted set the score was computed from, whatever the confidence
\* slider is set to.
C27_ShownAreScored ==
  (/\ ui.route = "dashboard"
   /\ ui.dashData.kind = "data"
   /\ ui.dashData.daprScore # NoValue) =>
    { filteredDetections[k].id : k \in DOMAIN filteredDetections }
      = { ui.dashData.detections[k].id : k \in DOMAIN ui.dashData.detections }

\* What does hold: with the slider where the dashboard's setup puts it, at
\* 0.3, every detection read is listed.
ShownAreScoredAtDefault ==
  (/\ ui.route = "dashboard"
   /\ ui.dashData.kind = "data"
   /\ ui.confidenceThreshold = 300) =>
    filteredDetections = ui.dashData.detections
====
